---- MODULE Spec2Model ----
(***************************************************************************)
(* A model of the Tetris engine of src/src/js/tetris.ts: the Game object,  *)
(* its Tets (living, next, landed, fragments), the drop-loop interval, the *)
(* settle ("falling animation") intervals started by Tet.collided, and the *)
(* window/keyboard handlers installed by Game.handleEvents.                *)
(*                                                                         *)
(* Objects live in a heap (tets: id -> Tet fields); allTets, currTet,      *)
(* nextTet and the settle timers' closures hold ids.  Every handler is an  *)
(* operator from a state record to a state record, so that a handler's     *)
(* calls (draw, getLanded, createTet, collided, ...) are part of its one   *)
(* step.  Rows and columns are 0-based as in the source; TLA+ sequences    *)
(* are 1-based, so shape[i][j] is the source's shape[i-1][j-1].            *)
(*                                                                         *)
(* Time is not modelled: the drop-loop interval (750 ms) and the settle    *)
(* intervals (200 ms) are asynchronous, a scheduled interval may tick      *)
(* whenever no handler is running, in any order with the key presses.      *)
(***************************************************************************)
EXTENDS Integers, Sequences, FiniteSets, TLC

VARIABLES
  tets,              \* heap: Tet id -> [type, rotation, pivot, pivotMax, topLeft, shape, perim]
  devModeOn, newTet, currTet, nextTet, updateLanded, allTets, tetsToRemove,
  score, updateScore, loop, dropOnce, gameOver, landed, paused,   \* Game fields
  pausedBeforeBlur,  \* closure variable of handleEvents
  dropLoops,         \* number of drop-loop intervals now scheduled
  moveLoops,         \* the settle intervals now scheduled: the id each closure holds as `that`
  highScores,        \* the 'highScores' cookie
  lastRun,           \* the handler that ran last: [op, acc, ret]
  budget,            \* number of handler runs still to explore
  resets             \* number of resets since the initial state

vars == <<tets, devModeOn, newTet, currTet, nextTet, updateLanded, allTets,
          tetsToRemove, score, updateScore, loop, dropOnce, gameOver, landed,
          paused, pausedBeforeBlur, dropLoops, moveLoops, highScores, lastRun,
          budget, resets>>

----------------------------------------------------------------------------
(* Program constants *)

BOARD_ROW_NUM == 16
BOARD_COL_NUM == 10

\* null / undefined object reference
Null == 0
\* an undefined number field (a fragment's rotation, pivot and pivotMax)
Undef == -1
\* an argument that was not passed (undefined)
NoArg == -2

\* Math.floor(Math.random() * 7)
Rand == 0..6

----------------------------------------------------------------------------
(* Tet.getShapeMatrix: the shape catalog *)

matrixMatrix ==
  [ t \in 0..6 |->
      CASE t = 0 -> << <<<<1,1,1,1>>>>, <<<<1>>,<<1>>,<<1>>,<<1>>>> >>
        [] t = 1 -> << <<<<1,1,1>>,<<0,0,1>>>>, <<<<0,1>>,<<0,1>>,<<1,1>>>>,
                       <<<<1>>,<<1,1,1>>>>,     <<<<1,1>>,<<1>>,<<1>>>> >>
        [] t = 2 -> << <<<<1,1,1>>,<<1>>>>,     <<<<1,1>>,<<0,1>>,<<0,1>>>>,
                       <<<<0,0,1>>,<<1,1,1>>>>, <<<<1>>,<<1>>,<<1,1>>>> >>
        [] t = 3 -> << <<<<1,1>>,<<1,1>>>> >>
        [] t = 4 -> << <<<<0,1,1>>,<<1,1>>>>,   <<<<1>>,<<1,1>>,<<0,1>>>> >>
        [] t = 5 -> << <<<<1,1,1>>,<<0,1>>>>,   <<<<0,1>>,<<1,1>>,<<0,1>>>>,
                       <<<<0,1>>,<<1,1,1>>>>,   <<<<1>>,<<1,1>>,<<1>>>> >>
        [] t = 6 -> << <<<<1,1>>,<<0,1,1>>>>,   <<<<0,1>>,<<1,1>>,<<1>>>> >> ]

\* the pivotMax that getShapeMatrix assigns as a side effect
PivotMaxOf(type) ==
  CASE type = 0 -> 3
    [] type = 3 -> 0
    [] OTHER    -> 1

getShapeMatrix(type, rotation) ==
  LET m == matrixMatrix[type]
  IN CASE Len(m) = 1 -> m[1]
       [] Len(m) = 2 -> m[(rotation % 2) + 1]
       [] Len(m) = 4 -> m[rotation + 1]
       [] OTHER      -> << >>

----------------------------------------------------------------------------
(* Tet.getPerim: the perimeter catalog and its matching loop *)

periMatrix ==
  << << <<<<1>>>>,                     <<<<0,0>>,<<0,1>>,<<1,1>>,<<1,0>>>> >>,
     << <<<<1,1>>>>,                   <<<<0,0>>,<<0,1>>,<<2,1>>,<<2,0>>>> >>,
     << <<<<1>>,<<1>>>>,               <<<<0,0>>,<<0,2>>,<<1,2>>,<<1,0>>>> >>,
     << <<<<1,1,1>>>>,                 <<<<0,0>>,<<0,1>>,<<3,1>>,<<3,0>>>> >>,
     << <<<<1>>,<<1>>,<<1>>>>,         <<<<0,0>>,<<0,3>>,<<1,3>>,<<1,0>>>> >>,
     << <<<<1,1>>,<<0,1>>>>,           <<<<0,0>>,<<0,1>>,<<1,1>>,<<1,2>>,<<2,2>>,<<2,0>>>> >>,
     << <<<<0,1>>,<<1,1>>>>,           <<<<1,0>>,<<1,1>>,<<0,1>>,<<0,2>>,<<2,2>>,<<2,0>>>> >>,
     << <<<<1>>,<<1,1>>>>,             <<<<0,0>>,<<0,2>>,<<2,2>>,<<2,1>>,<<1,1>>,<<1,0>>>> >>,
     << <<<<1,1>>,<<1>>>>,             <<<<0,0>>,<<0,2>>,<<1,2>>,<<1,1>>,<<2,1>>,<<2,0>>>> >>,
     << <<<<1,1,1,1>>>>,               <<<<0,0>>,<<0,1>>,<<4,1>>,<<4,0>>>> >>,
     << <<<<1>>,<<1>>,<<1>>,<<1>>>>,   <<<<0,0>>,<<0,4>>,<<1,4>>,<<1,0>>>> >>,
     << <<<<1,1,1>>,<<0,0,1>>>>,       <<<<0,0>>,<<0,1>>,<<2,1>>,<<2,2>>,<<3,2>>,<<3,0>>>> >>,
     << <<<<0,1>>,<<0,1>>,<<1,1>>>>,   <<<<1,0>>,<<1,2>>,<<0,2>>,<<0,3>>,<<2,3>>,<<2,0>>>> >>,
     << <<<<1>>,<<1,1,1>>>>,           <<<<0,0>>,<<0,2>>,<<3,2>>,<<3,1>>,<<1,1>>,<<1,0>>>> >>,
     << <<<<1,1>>,<<1>>,<<1>>>>,       <<<<0,0>>,<<0,3>>,<<1,3>>,<<1,1>>,<<2,1>>,<<2,0>>>> >>,
     << <<<<1,1,1>>,<<1>>>>,           <<<<0,0>>,<<0,2>>,<<1,2>>,<<1,1>>,<<3,1>>,<<3,0>>>> >>,
     << <<<<1,1>>,<<0,1>>,<<0,1>>>>,   <<<<0,0>>,<<0,1>>,<<1,1>>,<<1,3>>,<<2,3>>,<<2,0>>>> >>,
     << <<<<0,0,1>>,<<1,1,1>>>>,       <<<<2,0>>,<<2,1>>,<<0,1>>,<<0,2>>,<<3,2>>,<<3,0>>>> >>,
     << <<<<1>>,<<1>>,<<1,1>>>>,       <<<<0,0>>,<<0,3>>,<<2,3>>,<<2,2>>,<<1,2>>,<<1,0>>>> >>,
     << <<<<1,1>>,<<1,1>>>>,           <<<<0,0>>,<<0,2>>,<<2,2>>,<<2,0>>>> >>,
     << <<<<0,1,1>>,<<1,1>>>>,         <<<<1,0>>,<<1,1>>,<<0,1>>,<<0,2>>,<<2,2>>,<<2,1>>,<<3,1>>,<<3,0>>>> >>,
     << <<<<1>>,<<1,1>>,<<0,1>>>>,     <<<<0,0>>,<<0,2>>,<<1,2>>,<<1,3>>,<<2,3>>,<<2,1>>,<<1,1>>,<<1,0>>>> >>,
     << <<<<1,1,1>>,<<0,1>>>>,         <<<<0,0>>,<<0,1>>,<<1,1>>,<<1,2>>,<<2,2>>,<<2,1>>,<<3,1>>,<<3,0>>>> >>,
     << <<<<0,1>>,<<1,1>>,<<0,1>>>>,   <<<<1,0>>,<<1,1>>,<<0,1>>,<<0,2>>,<<1,2>>,<<1,3>>,<<2,3>>,<<2,0>>>> >>,
     << <<<<0,1>>,<<1,1,1>>>>,         <<<<1,0>>,<<1,1>>,<<0,1>>,<<0,2>>,<<3,2>>,<<3,1>>,<<2,1>>,<<2,0>>>> >>,
     << <<<<1>>,<<1,1>>,<<1>>>>,       <<<<0,0>>,<<0,3>>,<<1,3>>,<<1,2>>,<<2,2>>,<<2,1>>,<<1,1>>,<<1,0>>>> >>,
     << <<<<1,1>>,<<0,1,1>>>>,         <<<<0,0>>,<<0,1>>,<<1,1>>,<<1,2>>,<<3,2>>,<<3,1>>,<<2,1>>,<<2,0>>>> >>,
     << <<<<0,1>>,<<1,1>>,<<1>>>>,     <<<<1,0>>,<<1,1>>,<<0,1>>,<<0,3>>,<<1,3>>,<<1,2>>,<<2,2>>,<<2,0>>>> >> >>

\* one candidate of the scan: the loops of lines 1000-1019 leave checkNextShape
\* false.  The row-count test sits inside the row loop and the row-length test
\* inside the column loop, so an empty shape and an empty row are never compared.
PerimMatches(shape, cand) ==
  \A row \in 1..Len(shape) :
     /\ Len(shape) = Len(cand)
     /\ \A col \in 1..Len(shape[row]) :
           /\ Len(shape[row]) = Len(cand[row])
           /\ shape[row][col] = cand[row][col]

\* the perimeter of the first entry of pM whose shape matches, [] when none does
FirstMatch(shape, pM) ==
  LET hits == { p \in 1..Len(pM) : PerimMatches(shape, pM[p][1]) }
  IN IF hits = {} THEN << >>
     ELSE pM[CHOOSE p \in hits : \A q \in hits : p <= q][2]

\* a scan of the catalog without its first nine entries, the shapes that
\* only a row clear leaves: AllHavePerim tells it from getPerim
getPerimWhole(shape) == FirstMatch(shape, SubSeq(periMatrix, 10, Len(periMatrix)))

getPerim(shape) == FirstMatch(shape, periMatrix)

----------------------------------------------------------------------------
(* Tet: construction and geometry *)

\* new Tet(game, type) for a catalog type: lines 885-890
NewTet(type) ==
  [ type     |-> type,
    rotation |-> 0,
    pivot    |-> 0,
    pivotMax |-> PivotMaxOf(type),
    topLeft  |-> [row |-> 0, col |-> 4],
    shape    |-> getShapeMatrix(type, 0),
    perim    |-> getPerim(getShapeMatrix(type, 0)) ]

\* JavaScript truthiness of a number-or-undefined argument: 0 and undefined
\* are falsy
Truthy(x) == x # 0 /\ x # NoArg

\* the type a `new Tet(game, type)` ends with (line 880): r is the draw of
\* Math.floor(Math.random() * 7) taken when the test fails
TetType(type, r) ==
  IF Truthy(type) /\ type >= -1 /\ type < 7 THEN type ELSE r

\* the board cells (row, col) a shape occupies when its origin is at tl
ShapeCells(shape, tl) ==
  { <<tl.row + i - 1, tl.col + j - 1>> :
      <<i, j>> \in { p \in (1..Len(shape)) \X (1..4) :
                       p[2] <= Len(shape[p[1]]) /\ shape[p[1]][p[2]] # 0 } }

Cells(t) == ShapeCells(t.shape, t.topLeft)

\* the occupied (row, col) indices of a shape (0-based) in the order the
\* nested loops of the collision checks visit them: row by row, and a shape
\* has at most 4 rows of at most 4 values
Scan(shape) ==
  SelectSeq([k \in 1..16 |-> <<(k - 1) \div 4, (k - 1) % 4>>],
            LAMBDA p : /\ p[1] < Len(shape)
                       /\ p[2] < Len(shape[p[1] + 1])
                       /\ shape[p[1] + 1][p[2] + 1] # 0)

----------------------------------------------------------------------------
(* The state record the handlers work on: the Game's fields, the heap and  *)
(* the timers.  exc is set when a statement throws (a TypeError); the rest *)
(* of the running handler is then skipped.                                 *)

State ==
  [ tets |-> tets, devModeOn |-> devModeOn, newTet |-> newTet,
    currTet |-> currTet, nextTet |-> nextTet, updateLanded |-> updateLanded,
    allTets |-> allTets, tetsToRemove |-> tetsToRemove, score |-> score,
    updateScore |-> updateScore, loop |-> loop, dropOnce |-> dropOnce,
    gameOver |-> gameOver, landed |-> landed, paused |-> paused,
    pausedBeforeBlur |-> pausedBeforeBlur, dropLoops |-> dropLoops,
    moveLoops |-> moveLoops, highScores |-> highScores, exc |-> FALSE ]

\* s, then F unless a statement of s threw
Then(s, F(_)) == IF s.exc THEN s ELSE F(s)

Throw(s) == [s EXCEPT !.exc = TRUE]

\* a fresh object identity
NewId(s) == CHOOSE i \in 1..(Cardinality(DOMAIN s.tets) + 1) : i \notin DOMAIN s.tets

Alloc(s, id, t) == [s EXCEPT !.tets = (id :> t) @@ s.tets]

\* position of an object in allTets (1-based), 0 when absent: indexOf + 1
IndexOf(seq, id) ==
  IF \E i \in 1..Len(seq) : seq[i] = id
  THEN CHOOSE i \in 1..Len(seq) : seq[i] = id /\ \A k \in 1..(i - 1) : seq[k] # id
  ELSE 0

InAllTets(s, id) == \E i \in 1..Len(s.allTets) : s.allTets[i] = id

----------------------------------------------------------------------------
(* Game.getLanded *)

\* landed as the set of (row, col) whose array cell holds 1.  A write to a row
\* outside 0..15 throws (landed[row] is undefined); a write to a column outside
\* 0..9 just adds an element.
\* a getLanded without line 655, which would answer a call with an argument
\* from the memoized grid: MemoIsCurrent tells it from getLanded
getLandedMemo(s, tet) ==
  IF s.updateLanded
  THEN LET others == { s.allTets[i] : i \in { k \in 1..Len(s.allTets) :
                            s.allTets[k] # s.currTet /\ s.allTets[k] # tet } }
           cells  == UNION { Cells(s.tets[id]) : id \in others }
       IN IF \E c \in cells : c[1] < 0 \/ c[1] >= BOARD_ROW_NUM
          THEN Throw([s EXCEPT !.updateLanded = TRUE])
          ELSE [s EXCEPT !.landed = cells, !.updateLanded = FALSE]
  ELSE s

getLanded(s, tet) ==
  IF s.updateLanded \/ tet # NoArg
  THEN LET others == { s.allTets[i] : i \in { k \in 1..Len(s.allTets) :
                            s.allTets[k] # s.currTet /\ s.allTets[k] # tet } }
           cells  == UNION { Cells(s.tets[id]) : id \in others }
       IN IF \E c \in cells : c[1] < 0 \/ c[1] >= BOARD_ROW_NUM
          THEN Throw([s EXCEPT !.updateLanded = TRUE])
          ELSE [s EXCEPT !.landed = cells, !.updateLanded = FALSE]
  ELSE s

\* landed[row][col] !== 0: an element never written is undefined, which is
\* not 0 either, unless it is one of the zeros getLanded laid out
LandedTaken(ld, row, col) ==
  \/ col < 0
  \/ col >= BOARD_COL_NUM
  \/ <<row, col>> \in ld

----------------------------------------------------------------------------
(* Tet collision checks *)

\* a floor test with > for >= (line 1150), which would let a Tet sink one row
\* into the floor: OLandsOnFloor tells it from doesTetCollideBot
doesTetCollideBotLate(s, id, potTopLeft) ==
  LET Check(s1) ==
        [ s   |-> s1,
          ret |-> \E p \in ShapeCells(s1.tets[id].shape, potTopLeft) :
                     \/ p[1] > BOARD_ROW_NUM
                     \/ LandedTaken(s1.landed, p[1], p[2]) ]
  IN Check(getLanded(s, id))

\* Tet.doesTetCollideBot: [s, ret]
doesTetCollideBot(s, id, potTopLeft) ==
  LET Check(s1) ==
        [ s   |-> s1,
          ret |-> \E p \in ShapeCells(s1.tets[id].shape, potTopLeft) :
                     \/ p[1] >= BOARD_ROW_NUM
                     \/ LandedTaken(s1.landed, p[1], p[2]) ]
  IN Check(getLanded(s, id))

\* what the scan of doesTetCollideSide meets at one occupied cell
SideHit(ld, row, col) ==
  IF col < 0 THEN "left"
  ELSE IF col >= BOARD_COL_NUM THEN "right"
  ELSE IF <<row, col>> \in ld THEN "taken"
  ELSE "free"

\* the first cell of the scan that is not free, or "free"
RECURSIVE FirstSideHit(_, _, _, _)
FirstSideHit(ld, cells, k, tl) ==
  IF k > Len(cells) THEN "free"
  ELSE LET h == SideHit(ld, cells[k][1] + tl.row, cells[k][2] + tl.col)
       IN IF h # "free" THEN h ELSE FirstSideHit(ld, cells, k + 1, tl)

\* Tet.doesTetCollideSide: [s, ret]; direction is 1 or NoArg
doesTetCollideSide(s, id, potTopLeft, direction) ==
  LET Hit(s1, hit) ==
        LET t        == s1.tets[id]
            canPivot == t.pivot < t.pivotMax /\ t.rotation % 2 = 0
            bump     == \/ hit = "right" /\ canPivot
                        \/ hit = "taken" /\ direction = 1 /\ canPivot
        IN [ s   |-> IF bump THEN [s1 EXCEPT !.tets[id].pivot = t.pivot + 1] ELSE s1,
             ret |-> hit # "free" ]
      Check(s1) ==
        Hit(s1, FirstSideHit(s1.landed, Scan(s1.tets[id].shape), 1, potTopLeft))
  IN Check(getLanded(s, NoArg))

----------------------------------------------------------------------------
(* Tet.setShape, Tet.rotate, Tet.moveLeft, Tet.moveRight *)

setShape(s, id, shape) ==
  [s EXCEPT !.tets[id].shape = shape, !.tets[id].perim = getPerim(shape)]

\* the checks of lines 1059-1081: some occupied cell of potShape at topLeft
\* is out of the board or on a landed cell
RotateBlocked(ld, potShape, tl) ==
  \E p \in ShapeCells(potShape, tl) :
     \/ p[2] < 0
     \/ p[2] >= BOARD_COL_NUM
     \/ p[1] >= BOARD_ROW_NUM
     \/ LandedTaken(ld, p[1], p[2])

NextRot(rotation) == IF rotation < 3 THEN rotation + 1 ELSE 0

\* a rotate that would store the new rotation before its checks, and so keep
\* it when they reject the rotation: RotateAllOrNothing tells it from RotateTo
RotateToEarly(s1, id, potRot, potShape) ==
  IF RotateBlocked(s1.landed, potShape, s1.tets[id].topLeft)
  THEN [s |-> [s1 EXCEPT !.tets[id].rotation = potRot], ret |-> FALSE]
  ELSE [s |-> setShape([s1 EXCEPT !.tets[id].topLeft.col = @ + s1.tets[id].pivot,
                                  !.tets[id].pivot = 0,
                                  !.tets[id].rotation = potRot],
                       id, potShape),
        ret |-> TRUE]

\* Tet.rotate: [s, ret]
\* lines 1059-1086 of rotate, with landed, potRot and potShape in hand
RotateTo(s1, id, potRot, potShape) ==
  LET t == s1.tets[id]
  IN IF RotateBlocked(s1.landed, potShape, t.topLeft)
     THEN [s |-> s1, ret |-> FALSE]
     ELSE [s |-> setShape([s1 EXCEPT !.tets[id].topLeft.col = t.topLeft.col + t.pivot,
                                     !.tets[id].pivot = 0,
                                     !.tets[id].rotation = potRot],
                          id, potShape),
           ret |-> TRUE]

rotate(s, id) ==
  RotateTo(getLanded(s, NoArg), id, NextRot(s.tets[id].rotation),
           getShapeMatrix(s.tets[id].type, NextRot(s.tets[id].rotation)))

\* a moveLeft without the assignment of line 1215: PivotRule tells it from
\* moveLeft
moveLeftKeepPivot(s, id) ==
  LET pot == [row |-> s.tets[id].topLeft.row, col |-> s.tets[id].topLeft.col - 1]
      Move(c) == IF ~c.ret THEN [c.s EXCEPT !.tets[id].topLeft = pot] ELSE c.s
  IN Move(doesTetCollideSide(s, id, pot, NoArg))

moveLeft(s, id) ==
  LET pot == [row |-> s.tets[id].topLeft.row, col |-> s.tets[id].topLeft.col - 1]
      Move(c) == IF ~c.ret THEN [c.s EXCEPT !.tets[id].topLeft = pot] ELSE c.s
  IN Move(doesTetCollideSide([s EXCEPT !.tets[id].pivot = 0], id, pot, NoArg))

moveRight(s, id) ==
  LET pot == [row |-> s.tets[id].topLeft.row, col |-> s.tets[id].topLeft.col + 1]
      Move(c) == IF ~c.ret THEN [c.s EXCEPT !.tets[id].topLeft = pot] ELSE c.s
  IN Move(doesTetCollideSide(s, id, pot, 1))

----------------------------------------------------------------------------
(* Tet.cleanShape, Tet.updateTet, Tet.alterShape, Game.alterShapes *)

\* the while (true) loop of cleanShape: drop the first column while no row
\* starts with a value > 0 (the loop never ends on a shape without such a
\* value; the guard on empty rows only keeps the definition total)
\* a first loop that would drop the column and keep topLeft.col:
\* ClearTakesFullRowsOnly tells it from StripLeft
RECURSIVE StripLeftKeepCol(_, _)
StripLeftKeepCol(shape, col) ==
  IF \/ \E row \in 1..Len(shape) : Len(shape[row]) > 0 /\ shape[row][1] > 0
     \/ \A row \in 1..Len(shape) : Len(shape[row]) = 0
  THEN [shape |-> shape, col |-> col]
  ELSE StripLeftKeepCol([row \in 1..Len(shape) |->
                    IF Len(shape[row]) > 0 THEN Tail(shape[row]) ELSE shape[row]],
                 col)

RECURSIVE StripLeft(_, _)
StripLeft(shape, col) ==
  IF \/ \E row \in 1..Len(shape) : Len(shape[row]) > 0 /\ shape[row][1] > 0
     \/ \A row \in 1..Len(shape) : Len(shape[row]) = 0
  THEN [shape |-> shape, col |-> col]
  ELSE StripLeft([row \in 1..Len(shape) |->
                    IF Len(shape[row]) > 0 THEN Tail(shape[row]) ELSE shape[row]],
                 col + 1)

\* the second loop of cleanShape on one row: drop the zeros at its end
\* a second loop that would drop the last entry of a row whatever it holds:
\* CleanShapeIdempotent tells it from StripRight
StripRightAny(row) ==
  IF Len(row) > 1 THEN SubSeq(row, 1, Len(row) - 1) ELSE row

RECURSIVE StripRight(_)
StripRight(row) ==
  IF Len(row) > 0 /\ row[Len(row)] = 0
  THEN StripRight(SubSeq(row, 1, Len(row) - 1))
  ELSE row

cleanShape(o) ==
  LET l == StripLeft(o.shape, o.topLeft.col)
  IN [ shape   |-> [row \in 1..Len(l.shape) |-> StripRight(l.shape[row])],
       topLeft |-> [row |-> o.topLeft.row, col |-> l.col] ]

arrayIsAllZeros(arr) == \A col \in 1..Len(arr) : ~(arr[col] > 0)

\* the first loop of updateTet: the queue of runs of rows that are not all zero
RECURSIVE BuildQueue(_, _, _, _, _, _)
BuildQueue(t, row, currShape, topLeft, q, last) ==
  IF row > last
  THEN IF Len(currShape) > 0
       THEN Append(q, [shape |-> currShape, topLeft |-> topLeft]) ELSE q
  ELSE LET zeros == arrayIsAllZeros(t.shape[row])
       IN BuildQueue(t, row + 1,
                     IF ~zeros THEN Append(currShape, t.shape[row]) ELSE << >>,
                     IF ~zeros /\ Len(currShape) = 0
                     THEN [row |-> t.topLeft.row + row - 1, col |-> t.topLeft.col]
                     ELSE topLeft,
                     IF zeros /\ Len(currShape) > 0
                     THEN Append(q, [shape |-> currShape, topLeft |-> topLeft])
                     ELSE q,
                     last)

\* new Tet(game, -1) of line 1438 with the three assignments that follow it
NewFragment(type, tmp) ==
  [ type     |-> type,
    rotation |-> Undef,
    pivot    |-> Undef,
    pivotMax |-> Undef,
    topLeft  |-> tmp.topLeft,
    shape    |-> tmp.shape,
    perim    |-> getPerim(tmp.shape) ]

\* a loop turn that would reshape this Tet for every queue entry:
\* SplitIntoRuns tells it from ApplyOne
ApplyOneSameTet(s, id, tmp, i) ==
  setShape([s EXCEPT !.tets[id].topLeft = tmp.topLeft], id, tmp.shape)

\* one turn of the second loop of updateTet: the first queue entry reshapes
\* this Tet, each later one becomes a new Tet pushed on allTets
ApplyOne(s, id, tmp, i) ==
  IF i = 1
  THEN setShape([s EXCEPT !.tets[id].topLeft = tmp.topLeft], id, tmp.shape)
  ELSE [Alloc(s, NewId(s), NewFragment(s.tets[id].type, tmp))
          EXCEPT !.allTets = Append(s.allTets, NewId(s))]

\* the second loop of updateTet
RECURSIVE ApplyQueue(_, _, _, _)
ApplyQueue(s, id, q, i) ==
  IF i > Len(q) THEN s
  ELSE ApplyQueue(ApplyOne(s, id, cleanShape(q[i]), i), id, q, i + 1)

\* lines 1424-1444 of updateTet, with the queue q in hand
UseQueue(s, id, q) ==
  ApplyQueue(IF Len(q) = 0
             THEN [s EXCEPT !.tetsToRemove =
                      Append(s.tetsToRemove, IndexOf(s.allTets, id) - 1)]
             ELSE s,
             id, q, 1)

updateTet(s, id) ==
  UseQueue(s, id, BuildQueue(s.tets[id], 1, << >>, s.tets[id].topLeft, << >>,
                             Len(s.tets[id].shape)))

\* an alterShape that would zero no row: OneRowCleared tells it from
\* alterShape
alterShapeKeep(s, id, fullRows) == updateTet(s, id)

\* Tet.alterShape: zero the rows of the shape that lie in fullRows
alterShape(s, id, fullRows) ==
  LET t == s.tets[id]
      zeroed == { fullRows[i] - t.topLeft.row : i \in 1..Len(fullRows) }
      shape2 == [row \in 1..Len(t.shape) |->
                   IF (row - 1) \in zeroed
                   THEN [col \in 1..Len(t.shape[row]) |-> 0]
                   ELSE t.shape[row]]
  IN updateTet([s EXCEPT !.tets[id].shape = shape2], id)

\* Array.prototype.splice(start, 1) with a 0-based start, negative counting
\* from the end
SpliceOne(seq, start) ==
  LET n  == Len(seq)
      st == IF start < 0 THEN (IF n + start < 0 THEN 0 ELSE n + start)
            ELSE IF start > n THEN n ELSE start
  IN IF st >= n THEN seq
     ELSE SubSeq(seq, 1, st) \o SubSeq(seq, st + 2, n)

RECURSIVE AlterLoop(_, _, _, _)
AlterLoop(s, fullRows, tet, len) ==
  IF tet > len THEN s
  ELSE LET t == s.tets[s.allTets[tet]]
       IN AlterLoop(IF \/ t.topLeft.row <= fullRows[1] - 4
                       \/ t.topLeft.row > fullRows[Len(fullRows)]
                    THEN s
                    ELSE alterShape(s, s.allTets[tet], fullRows),
                    fullRows, tet + 1, len)

\* a removal loop without the `- i` of line 700: ClearedTetsRemoved tells it
\* from RemoveLoop
RECURSIVE RemoveLoopNoShift(_, _, _)
RemoveLoopNoShift(all, toRemove, i) ==
  IF i > Len(toRemove) THEN all
  ELSE RemoveLoopNoShift(SpliceOne(all, toRemove[i]), toRemove, i + 1)

RECURSIVE RemoveLoop(_, _, _)
RemoveLoop(all, toRemove, i) ==
  IF i > Len(toRemove) THEN all
  ELSE RemoveLoop(SpliceOne(all, toRemove[i] - (i - 1)), toRemove, i + 1)

alterShapes(s, fullRows) ==
  LET Remove(s1) ==
        [s1 EXCEPT !.allTets = RemoveLoop(s1.allTets, s1.tetsToRemove, 1),
                   !.tetsToRemove = << >>,
                   !.updateLanded = TRUE]
  IN Remove(AlterLoop(s, fullRows, 1, Len(s.allTets)))

----------------------------------------------------------------------------
(* Tet.collided (the landing sequence) and Tet.moveDown *)

\* a score of 10000 for each row: MultiRowBonus tells it from RowScore
RowScoreFlat(fRLen) == fRLen * 10000

\* (fRLen ** (1 + (fRLen - 1) * 0.1)) * 10000 of line 1288, in whole points
\* (the double rounded down)
RowScore(fRLen) ==
  CASE fRLen = 1  -> 10000
    [] fRLen = 2  -> 21435
    [] fRLen = 3  -> 37371
    [] fRLen = 4  -> 60628
    [] fRLen = 5  -> 95182
    [] fRLen = 6  -> 146969
    [] fRLen = 7  -> 224986
    [] fRLen = 8  -> 342967
    [] fRLen = 9  -> 521959
    [] fRLen = 10 -> 794328
    [] fRLen = 11 -> 1210000
    [] fRLen = 12 -> 1846207
    [] fRLen = 13 -> 2822769
    [] fRLen = 14 -> 4326079
    [] fRLen = 15 -> 6646898
    [] OTHER      -> 10240000

\* isFilled of lines 1275-1281
RowIsFilled(ld, row) == \A col \in 0..(BOARD_COL_NUM - 1) : LandedTaken(ld, row, col)

\* the rows collided() finds full, top to bottom
RECURSIVE FullRowsFrom(_, _)
FullRowsFrom(ld, row) ==
  IF row >= BOARD_ROW_NUM THEN << >>
  ELSE (IF RowIsFilled(ld, row) THEN <<row>> ELSE << >>) \o FullRowsFrom(ld, row + 1)

\* Tet.collided with `this` = id.  setInterval of line 1297 schedules a new
\* settle interval whose closure holds id; nothing cancels an earlier one.
\* lines 1297-1326: the settle interval is scheduled
\* a collided that would schedule no settle interval: LandedSupportedAtRest
\* tells it from StartMoveLoop
StartNoMoveLoop(s3, id) == [s3 EXCEPT !.updateLanded = TRUE]

StartMoveLoop(s3, id) ==
  [s3 EXCEPT !.updateLanded = TRUE, !.moveLoops = Append(s3.moveLoops, id)]

\* a collided without the return of line 1285, which would schedule the
\* settle interval after every landing: LandingWithoutRowFrame tells it from
\* ClearRows
ClearRowsAlways(s2, id, fullRows) ==
  StartMoveLoop(IF Len(fullRows) = 0 THEN s2
                ELSE alterShapes([s2 EXCEPT !.score =
                                               s2.score + RowScore(Len(fullRows))],
                                 fullRows),
                id)

\* lines 1285-1327 of collided, with the full rows in hand
ClearRows(s2, id, fullRows) ==
  IF Len(fullRows) = 0 THEN s2
  ELSE StartMoveLoop(alterShapes([s2 EXCEPT !.score =
                                                s2.score + RowScore(Len(fullRows))],
                                 fullRows),
                     id)

\* lines 1271-1327 of collided, with landed in hand
FindRows(s1, id) ==
  IF s1.exc THEN s1
  ELSE ClearRows([s1 EXCEPT !.updateLanded = TRUE], id,
                 FullRowsFrom(s1.landed, s1.tets[id].topLeft.row))

collided(s, id) == FindRows(getLanded(s, NoArg), id)

\* Tet.moveDown
\* lines 1250-1257 of moveDown, with the result c of the collision check
DownOrLand(c, id, pot) ==
  IF c.s.exc THEN c.s
  ELSE IF ~c.ret THEN [c.s EXCEPT !.tets[id].topLeft = pot]
  ELSE collided([c.s EXCEPT !.newTet = TRUE, !.currTet = Null,
                            !.updateLanded = TRUE], id)

Below(s, id) == [row |-> s.tets[id].topLeft.row + 1, col |-> s.tets[id].topLeft.col]

moveDown(s, id) == DownOrLand(doesTetCollideBot(s, id, Below(s, id)), id, Below(s, id))

----------------------------------------------------------------------------
(* Game.checkHighScore, Game.draw *)

\* a splice without the pop of line 784: HighScoresRanked tells it from
\* InsertScore
InsertScoreNoPop(hs, sc) ==
  LET beats == { i \in 1..Len(hs) : sc > hs[i] }
  IN IF beats = {} THEN hs
     ELSE LET i == CHOOSE k \in beats : \A m \in beats : k <= m
          IN SubSeq(hs, 1, i - 1) \o <<sc>> \o SubSeq(hs, i, Len(hs))

\* the high-score list with the score spliced in before the first entry it
\* beats, and popped back to its length
InsertScore(hs, sc) ==
  LET beats == { i \in 1..Len(hs) : sc > hs[i] }
  IN IF beats = {} THEN hs
     ELSE LET i == CHOOSE k \in beats : \A m \in beats : k <= m
          IN SubSeq(SubSeq(hs, 1, i - 1) \o <<sc>> \o SubSeq(hs, i, Len(hs)), 1, Len(hs))

\* Number.prototype.toFixed(2) of src/src/main.js line 789, on amounts counted
\* in thousandths of a point: the amount (a multiple of 10) that the string
\* of two decimals denotes when > compares it with a score
toFixed2(x) == ((x + 5) \div 10) * 10

\* the splice and pop of src/src/main.js lines 786-793, on amounts counted in
\* thousandths of a point: the entry spliced in is score.toFixed(2)
InsertScoreFixed(hs, sc) ==
  LET beats == { i \in 1..Len(hs) : sc > hs[i] }
  IN IF beats = {} THEN hs
     ELSE LET i == CHOOSE k \in beats : \A m \in beats : k <= m
          IN SubSeq(SubSeq(hs, 1, i - 1) \o <<toFixed2(sc)>> \o SubSeq(hs, i, Len(hs)),
                    1, Len(hs))

\* a checkHighScore that would leave updateScore set: ScoreInsertedOnce tells
\* it from checkHighScore
checkHighScoreAgain(s) ==
  IF s.updateScore
  THEN [s EXCEPT !.highScores = InsertScore(s.highScores, s.score)]
  ELSE s

checkHighScore(s) ==
  IF s.updateScore
  THEN [s EXCEPT !.highScores = InsertScore(s.highScores, s.score),
                 !.updateScore = FALSE]
  ELSE s

\* Tet.doesNotTetPivotCollide, as far as it changes state: its getLanded(this)
pivotShadow(s, id) ==
  IF s.tets[id].pivot > 0 THEN getLanded(s, id) ELSE s

\* the checks of lines 1105-1131: some occupied cell of potShape at
\* potTopLeft is below the board, on a landed cell or beside the board
PivotBlocked(ld, potShape, potTopLeft) ==
  \E p \in ShapeCells(potShape, potTopLeft) :
     \/ p[1] >= BOARD_ROW_NUM
     \/ LandedTaken(ld, p[1], p[2])

\* Tet.doesNotTetPivotCollide: [s, ret, perim]; ret tells whether the call
\* returns a perimeter (perim) and not false
doesNotTetPivotCollide(s, id) ==
  LET t        == s.tets[id]
      potShape == getShapeMatrix(t.type, NextRot(t.rotation))
      Check(s1) ==
        IF s1.exc THEN [s |-> s1, ret |-> FALSE, perim |-> << >>]
        ELSE IF PivotBlocked(s1.landed, potShape,
                             [row |-> t.topLeft.row, col |-> t.topLeft.col + t.pivot])
        THEN [s |-> s1, ret |-> FALSE, perim |-> << >>]
        ELSE [s |-> s1, ret |-> TRUE, perim |-> getPerim(potShape)]
  IN Check(getLanded(s, id))

\* Game.draw as far as it touches the state: the living Tet's shadow is found
\* with doesTetCollideBot (so the landed cache is rebuilt without the living
\* Tet), the pivot shadow with doesNotTetPivotCollide, and the game-over
\* panel runs checkHighScore.  Reading perim[0][0] of an empty perimeter
\* throws.
draw(s) ==
  IF s.nextTet = Null THEN s
  ELSE IF s.tets[s.nextTet].perim = << >> THEN Throw(s)
  ELSE IF ~s.newTet /\ s.currTet = Null THEN s
  ELSE LET Rest(s1) ==
             IF s1.exc THEN s1
             ELSE IF \E i \in 1..Len(s1.allTets) : s1.tets[s1.allTets[i]].perim = << >>
             THEN Throw(s1)
             ELSE IF s1.gameOver THEN checkHighScore(s1)
             ELSE s1
       IN Rest(IF ~s.newTet
               THEN Then(getLanded(s, s.currTet),
                         LAMBDA x : IF x.tets[x.currTet].perim = << >> THEN Throw(x)
                                    ELSE pivotShadow(x, x.currTet))
               ELSE s)

----------------------------------------------------------------------------
(* Game.createTet, Game.tetDownLoop *)

\* clearInterval(this.loop): loop tells whether the handle is of an interval
\* still scheduled
clearLoop(s) ==
  IF s.loop THEN [s EXCEPT !.loop = FALSE, !.dropLoops = s.dropLoops - 1] ELSE s

\* Game.createTet; r1 is the draw of line 591, r2 and r3 the draws the two
\* Tet constructors take when their type argument is falsy
\* lines 589-596 of createTet: the first Tet of a game
FirstTet(s, r1, r2) ==
  IF s.nextTet = Null
  THEN [Alloc(s, NewId(s), NewTet(TetType(IF r1 = 4 \/ r1 = 6 THEN r1 - 1 ELSE r1, r2)))
          EXCEPT !.nextTet = NewId(s)]
  ELSE s

\* a createTet that would make the Tet it creates the living one and keep
\* the next Tet: AnnouncedTetSpawns tells it from NextTet
NextTetFresh(sA, r3) ==
  IF sA.newTet
  THEN [Alloc(sA, NewId(sA), NewTet(TetType(NoArg, r3)))
          EXCEPT !.currTet = NewId(sA)]
  ELSE sA

\* lines 598-602 of createTet: the next Tet becomes the living one
NextTet(sA, r3) ==
  IF sA.newTet
  THEN [Alloc(sA, NewId(sA), NewTet(TetType(NoArg, r3)))
          EXCEPT !.currTet = sA.nextTet, !.nextTet = NewId(sA)]
  ELSE sA

\* lines 604-607 of createTet
CurrTet(sB) ==
  [sB EXCEPT !.newTet = FALSE,
             !.currTet = IF sB.currTet = Null THEN sB.nextTet ELSE sB.currTet]

\* line 609 of createTet: does the living Tet collide where it stands
SpawnCheck(sC) == doesTetCollideBot(sC, sC.currTet, sC.tets[sC.currTet].topLeft)

\* lines 609-627 of createTet: game over, or the living Tet joins allTets
SpawnEnd(c) ==
  IF c.s.exc THEN c.s
  ELSE IF c.ret
  THEN clearLoop([c.s EXCEPT !.nextTet = c.s.currTet, !.gameOver = TRUE,
                             !.newTet = TRUE])
  ELSE draw([c.s EXCEPT !.allTets = Append(c.s.allTets, c.s.currTet)])

createTet(s, r1, r2, r3) ==
  SpawnEnd(SpawnCheck(CurrTet(NextTet(FirstTet(s, r1, r2), r3))))

\* a tetDownLoop without the clearInterval of line 637: OneDropTimer tells it
\* from tetDownLoop
tetDownLoopKeep(s) == [s EXCEPT !.loop = TRUE, !.dropLoops = s.dropLoops + 1]

\* Game.tetDownLoop: clearInterval(this.loop), then setInterval
tetDownLoop(s) ==
  LET Schedule(s1) == [s1 EXCEPT !.loop = TRUE, !.dropLoops = s1.dropLoops + 1]
  IN Schedule(clearLoop(s))

----------------------------------------------------------------------------
(* Game.handleEvents: window.onblur, window.onfocus, document.onkeydown *)

\* a canTetMove that would test gameOver only: GatedCommandsInert tells it
\* from canTetMove
canTetMoveUngated(s) == s.gameOver = FALSE

canTetMove(s) ==
  ((s.newTet = FALSE /\ s.paused = FALSE) \/ s.devModeOn = TRUE) /\ s.gameOver = FALSE

onblur(s) ==
  IF s.gameOver = FALSE
  THEN draw([clearLoop([s EXCEPT !.pausedBeforeBlur = s.paused]) EXCEPT !.paused = TRUE])
  ELSE s

\* an onfocus that would resume whatever the flag was before the focus loss:
\* BlurFocusRestores tells it from onfocus
onfocusAlways(s) ==
  IF s.gameOver = FALSE
  THEN draw([tetDownLoop(s) EXCEPT !.paused = FALSE])
  ELSE s

onfocus(s) ==
  IF ~s.pausedBeforeBlur /\ s.gameOver = FALSE
  THEN draw([tetDownLoop(s) EXCEPT !.paused = FALSE])
  ELSE s

\* while (!that.newTet && that.currTet) that.currTet.moveDown()
RECURSIVE DropLoop(_)
DropLoop(s) ==
  IF ~s.exc /\ ~s.newTet /\ s.currTet # Null
  THEN DropLoop(moveDown(s, s.currTet))
  ELSE s

\* the loop above ends: a living Tet whose shape holds no value never
\* collides (doesTetCollideBot tests the values of the shape only), and the
\* handler of the space bar does not return
DropEnds(s) == s.newTet \/ s.currTet = Null \/ Cells(s.tets[s.currTet]) # {}

\* case 32: space
keySpace(s) ==
  IF canTetMove(s)
  THEN Then(Then(DropLoop(s), draw), tetDownLoop)
  ELSE s

\* case 38: up arrow
keyUp(s) ==
  IF canTetMove(s) /\ s.currTet # Null
  THEN Then(rotate(s, s.currTet).s, draw)
  ELSE s

\* case 37: left arrow
keyLeft(s) ==
  IF canTetMove(s) /\ s.currTet # Null
  THEN Then(moveLeft(s, s.currTet), draw)
  ELSE s

\* case 39: right arrow
keyRight(s) ==
  IF canTetMove(s) /\ s.currTet # Null
  THEN Then(moveRight(s, s.currTet), draw)
  ELSE s

\* lines 268-269 of the down arrow: moveDown and draw
DownDraw(s1) == Then(moveDown(s1, s1.currTet), draw)

\* a down arrow without line 270, which would leave the drop loop it
\* cancelled unscheduled: DropLoopIffRunning tells it from DownLoop
DownLoopNever(s2, skip) == s2

\* line 270 of the down arrow
DownLoop(s2, skip) ==
  IF ~s2.exc /\ ~skip /\ ~s2.paused THEN tetDownLoop(s2) ELSE s2

\* case 40: down arrow
keyDown(s) ==
  IF canTetMove(s) /\ s.currTet # Null
  THEN DownLoop(DownDraw(IF ~s.newTet THEN clearLoop(s) ELSE s), s.newTet)
  ELSE s

\* case 80, 83: p and s
keyPause(s) ==
  IF s.gameOver = FALSE
  THEN IF ~s.paused
       THEN draw([clearLoop(s) EXCEPT !.paused = TRUE])
       ELSE draw([tetDownLoop(s) EXCEPT !.dropOnce = FALSE, !.paused = FALSE])
  ELSE s

\* a reset without line 264, which would keep the Tets of the game it ends:
\* ResetStartsOver tells it from keyReset
keyResetKeepTets(s, r1, r2, r3) ==
  createTet([clearLoop(s)
               EXCEPT !.currTet = Null, !.gameOver = FALSE, !.newTet = TRUE,
                      !.nextTet = Null, !.paused = TRUE, !.score = 0,
                      !.updateScore = TRUE],
            r1, r2, r3)

\* case 82: r
keyReset(s, r1, r2, r3) ==
  createTet([clearLoop([s EXCEPT !.allTets = << >>])
               EXCEPT !.currTet = Null, !.gameOver = FALSE, !.newTet = TRUE,
                      !.nextTet = Null, !.paused = TRUE, !.score = 0,
                      !.updateScore = TRUE],
            r1, r2, r3)

\* case 35: end key (developer's control)
keyEnd(s) ==
  IF s.devModeOn /\ s.currTet # Null
  THEN draw(IF s.tets[s.currTet].topLeft.row > 0
            THEN [s EXCEPT !.tets[s.currTet].topLeft.row = @ - 1]
            ELSE s)
  ELSE s

\* case 48..57: number keys (developer's control); testCase only warns
keyTestCase(s, r1, r2, r3) ==
  IF s.devModeOn
  THEN Then(createTet([s EXCEPT !.allTets = << >>, !.gameOver = FALSE,
                                !.score = 0, !.updateScore = TRUE],
                      r1, r2, r3),
            tetDownLoop)
  ELSE s

\* case 71: g (developer's control); sc is Math.random() * 100000 in whole points
keyGameOver(s, sc) ==
  IF s.devModeOn
  THEN draw([clearLoop([s EXCEPT !.gameOver = TRUE])
               EXCEPT !.score = sc, !.updateScore = TRUE])
  ELSE s

\* case 72: h (developer's control)
keyResetHighScores(s) ==
  IF s.devModeOn
  THEN draw([s EXCEPT !.highScores = <<0, 0, 0, 0, 0, 0, 0, 0, 0, 0>>])
  ELSE s

\* case 192: tilde; the assignment of line 314 leaves devModeOn as it is
keyTilde(s) == draw([s EXCEPT !.devModeOn = s.devModeOn])

----------------------------------------------------------------------------
(* The interval callbacks *)

\* the callback of tetDownLoop (lines 640-645)
\* lines 642-643 of the callback
\* a callback that would move the Tet it has just created: TickDoesOneThing
\* tells it from CreateOrDown
CreateAndDown(s1, r1, r2, r3) ==
  IF s1.newTet
  THEN Then(createTet(s1, r1, r2, r3),
            LAMBDA x : IF ~x.paused /\ ~x.newTet /\ x.currTet # Null
                       THEN moveDown(x, x.currTet) ELSE x)
  ELSE IF ~s1.paused /\ s1.currTet # Null THEN moveDown(s1, s1.currTet)
  ELSE s1

CreateOrDown(s1, r1, r2, r3) ==
  IF s1.newTet THEN createTet(s1, r1, r2, r3)
  ELSE IF ~s1.paused /\ s1.currTet # Null THEN moveDown(s1, s1.currTet)
  ELSE s1

dropTick(s, r1, r2, r3) ==
  Then(CreateOrDown(IF s.dropOnce /\ s.newTet THEN clearLoop(s) ELSE s, r1, r2, r3),
       draw)

\* one pass of the for loop of lines 1304-1318 over aT[tet..tLen]:
\* [s, movingTets, tetsMoved]
RECURSIVE SettlePass(_, _, _, _, _)
SettlePass(s, movingTets, tetsMoved, tet, tLen) ==
  IF tet > tLen \/ s.exc
  THEN [s |-> s, movingTets |-> movingTets, tetsMoved |-> tetsMoved]
  ELSE LET id    == s.allTets[tet]
           potTL == [row |-> s.tets[id].topLeft.row + 1, col |-> s.tets[id].topLeft.col]
           \* lines 1309-1316: the Tet moves down unless it collides
           Move(c) ==
             IF ~c.s.exc /\ ~c.ret
             THEN [s |-> [c.s EXCEPT !.tets[id].topLeft = potTL], moved |-> TRUE]
             ELSE [s |-> c.s, moved |-> FALSE]
           Rest(m) ==
             SettlePass(m.s, IF m.moved THEN movingTets \cup {id} ELSE movingTets,
                        tetsMoved \/ m.moved, tet + 1, tLen)
       IN Rest(IF \/ id \in movingTets
                  \/ (id = s.currTet /\ s.newTet # TRUE)
               THEN [s |-> s, moved |-> FALSE]
               ELSE Move(doesTetCollideBot(s, id, potTL)))

\* the while (tetsMoved) loop of lines 1300-1320: [s, movingTets]
RECURSIVE SettleLoop(_, _)
SettleLoop(s, movingTets) ==
  LET Again(p) ==
        IF p.s.exc THEN [s |-> p.s, movingTets |-> p.movingTets]
        ELSE IF p.tetsMoved
        THEN SettleLoop([p.s EXCEPT !.updateLanded = TRUE], p.movingTets)
        ELSE [s |-> [p.s EXCEPT !.updateLanded = TRUE], movingTets |-> p.movingTets]
  IN Again(SettlePass(s, movingTets, FALSE, 1, Len(s.allTets)))

\* a callback without the clearInterval of line 1323: SettleTerminates tells
\* it from MoveEnd
MoveEndKeep(s1, movingTets, k, that) ==
  IF ~s1.exc /\ movingTets = {}
  THEN collided(s1, that)
  ELSE s1

\* the callback of the settle interval moveLoops[k] (lines 1297-1326)
\* lines 1322-1325: when no Tet moved the interval is cleared and
\* that.collided() runs
MoveEnd(s1, movingTets, k, that) ==
  IF ~s1.exc /\ movingTets = {}
  THEN collided([s1 EXCEPT !.moveLoops = SubSeq(s1.moveLoops, 1, k - 1)
                                \o SubSeq(s1.moveLoops, k + 1, Len(s1.moveLoops))],
                that)
  ELSE s1

\* line 1321: draw
MoveDraw(l, k, that) == MoveEnd(Then(l.s, draw), l.movingTets, k, that)

moveTick(s, k) == MoveDraw(SettleLoop(s, {}), k, s.moveLoops[k])

----------------------------------------------------------------------------
(* Reachable states to explore from.  Each is computed by running the      *)
(* handlers above on a fixed play, so it is a state the program reaches;   *)
(* the exploration then takes every handler in every order from there.     *)

\* new Game('canvas', 'high-scores-list') of the renderer: the constructor's
\* assignments, displayHighScores() on a first run (the cookie becomes ten
\* zeros), createTet() and handleEvents()
Construct(r1, r2, r3) ==
  createTet([ tets |-> << >>, devModeOn |-> FALSE, newTet |-> TRUE,
              currTet |-> Null, nextTet |-> Null, updateLanded |-> TRUE,
              allTets |-> << >>, tetsToRemove |-> << >>, score |-> 0,
              updateScore |-> TRUE, loop |-> FALSE, dropOnce |-> FALSE,
              gameOver |-> FALSE, landed |-> {}, paused |-> TRUE,
              pausedBeforeBlur |-> TRUE, dropLoops |-> 0, moveLoops |-> << >>,
              highScores |-> <<0, 0, 0, 0, 0, 0, 0, 0, 0, 0>>, exc |-> FALSE ],
            r1, r2, r3)

\* the objects still referenced; the others are garbage
Live(s) ==
  ({ s.allTets[i] : i \in 1..Len(s.allTets) }
     \cup { s.moveLoops[i] : i \in 1..Len(s.moveLoops) }
     \cup { s.currTet, s.nextTet }) \ {Null}

\* the state a handler leaves behind it
Collect(s) == [s EXCEPT !.tets = [id \in Live(s) |-> s.tets[id]], !.exc = FALSE]

\* one event of a play: <<"p">>, <<"up">>, <<"left">>, <<"right">>, <<"down">>,
\* <<"space">>, <<"move">> (the first settle interval, if one is scheduled,
\* ticks) or <<"tick", r>>
\* (the drop loop ticks and the Tet it may create draws type r)
PlayOne(s, ev) ==
  Collect(CASE ev[1] = "p"     -> keyPause(s)
            [] ev[1] = "up"    -> keyUp(s)
            [] ev[1] = "left"  -> keyLeft(s)
            [] ev[1] = "right" -> keyRight(s)
            [] ev[1] = "down"  -> keyDown(s)
            [] ev[1] = "space" -> keySpace(s)
            [] ev[1] = "move"  -> IF Len(s.moveLoops) > 0 THEN moveTick(s, 1) ELSE s
            [] ev[1] = "tick"  -> dropTick(s, ev[2], ev[2], ev[2]))

RECURSIVE Play(_, _, _)
Play(s, script, i) ==
  IF i > Len(script) THEN s ELSE Play(PlayOne(s, script[i]), script, i + 1)

Times(ev, n) == [i \in 1..n |-> ev]

\* the game just started: an I is living, an I is next, the P key was pressed
Started == Play(Collect(Construct(0, 0, 0)), << <<"p">> >>, 1)

\* a vertical I landed in column 9 (rows 12-15) and the next I was created;
\* an O is next
PivotPlay1 ==
  Play(Started,
       << <<"up">> >> \o Times(<<"right">>, 5) \o << <<"space">>, <<"tick", 3>> >>, 1)

\* the living I was moved down to row 11 and right to columns 6-9, and three
\* more moves against the right wall have raised its pivot to 3
PivotPlay ==
  Play(PivotPlay1,
       Times(<<"right">>, 2) \o Times(<<"down">>, 11) \o Times(<<"right">>, 3), 1)

\* I, I on row 15 (columns 0-3 and 4-7); the third I is living; an O is next
ClearPlay1 ==
  Play(Started,
       Times(<<"left">>, 4) \o << <<"space">>, <<"tick", 0>>, <<"space">>, <<"tick", 3>> >>, 1)

\* the third I landed on row 14 (columns 0-3); the O is living; an I is next
ClearPlay2 ==
  Play(ClearPlay1, Times(<<"left">>, 4) \o << <<"space">>, <<"tick", 0>> >>, 1)

\* the living O was moved to rows 14-15 of columns 8-9 and has not landed
ClearPlay ==
  Play(ClearPlay2, Times(<<"right">>, 4) \o Times(<<"down">>, 14), 1)

\* the O landed and completed row 15, which was cleared: the I of row 14 and
\* the upper half of the O hang one row above the floor, the settle interval
\* is scheduled and has not ticked, no Tet is living
ClearedPlay == Play(ClearPlay, << <<"down">> >>, 1)

\* three vertical I stacked in column 4 (rows 4-15); the fourth I is living
TallPlay1 ==
  Play(Started,
       << <<"up">>, <<"space">>, <<"tick", 0>>, <<"up">>, <<"space">>, <<"tick", 0>>,
          <<"up">>, <<"space">>, <<"tick", 0>> >>, 1)

\* an I on row 15 at columns 0-3 and one at columns 5-8; the sixth I is
\* living, upright
TallPlay2 ==
  Play(TallPlay1,
       Times(<<"left">>, 4) \o << <<"space">>, <<"tick", 0>>, <<"right">>,
                                   <<"space">>, <<"tick", 0>>, <<"up">> >>, 1)

\* the sixth I landed in column 9 and completed row 15, which was cleared:
\* the settle interval is scheduled and has not ticked.  The seventh I was
\* created, turned upright and stands in rows 0-3 of column 4, on the stack
TallPlay ==
  Play(TallPlay2,
       Times(<<"right">>, 5) \o << <<"space">>, <<"tick", 3>>, <<"up">> >>, 1)

\* I on row 15 (columns 0-3), I on row 14 (columns 0-3); an L is living; an
\* I is next
CavePlay1 ==
  Play(Started,
       Times(<<"left">>, 4) \o << <<"space">>, <<"tick", 2>> >>
         \o Times(<<"left">>, 4) \o << <<"space">>, <<"tick", 0>> >>, 1)

\* the L landed upright in column 4 (rows 13-15, its foot on row 15 of column
\* 5); an I landed on row 14 (columns 5-8), over the empty cells of row 15;
\* an upright I landed on it in column 6 (rows 10-13); a J is living; an I is
\* next
CavePlay2 ==
  Play(CavePlay1,
       Times(<<"up">>, 3) \o << <<"space">>, <<"tick", 0>>, <<"right">>, <<"space">>,
                                <<"tick", 1>>, <<"up">> >>
         \o Times(<<"right">>, 2) \o << <<"space">>, <<"tick", 0>> >>, 1)

\* the J landed on the I of row 14 with its hook in column 9 and completed
\* row 14, which was cleared: the settle interval is scheduled and has not
\* ticked.  The next I was created and moved to columns 0-3; an O is next
CavePlay3 ==
  Play(CavePlay2,
       Times(<<"right">>, 3) \o << <<"space">>, <<"tick", 3>> >> \o Times(<<"left">>, 4), 1)

\* the living I was moved down to row 14
CavePlay4 == Play(Play(CavePlay3, Times(<<"down">>, 7), 1), Times(<<"down">>, 7), 1)

\* the living I was moved right along row 14 to columns 6-9, under the Tets
\* that have not settled yet, and down to row 15, where it has not landed
CavePlay == Play(CavePlay4, Times(<<"right">>, 6) \o << <<"down">> >>, 1)

\* a game whose first Tet is an L: the L lies on row 15 (columns 4-6) with its
\* end up in column 6; an I on row 15 (columns 0-3); an O on the L in columns
\* 4-5 (rows 13-14); an O is living; an I is next
EdgePlay1 ==
  Play(Collect(Construct(2, 0, 0)),
       << <<"p">>, <<"up">>, <<"up">>, <<"space">>, <<"tick", 3>> >>
         \o Times(<<"left">>, 4)
         \o << <<"space">>, <<"tick", 3>>, <<"space">>, <<"tick", 0>> >>, 1)

\* an O in columns 2-3 (rows 13-14); an I on row 13 (columns 6-9), held by
\* the end of the L over the empty cells of row 14; a J on it with its hook
\* in column 9 (rows 11-12); an O is living; a Z is next
EdgePlay2 ==
  Play(EdgePlay1,
       << <<"left">>, <<"left">>, <<"space">>, <<"tick", 1>>, <<"right">>, <<"right">>,
          <<"space">>, <<"tick", 3>> >>
         \o Times(<<"right">>, 3) \o << <<"space">>, <<"tick", 6>> >>, 1)

\* the O landed in columns 0-1 and completed row 13, which was cleared: the
\* J hangs over rows 13-14 of columns 7-9, the settle interval is scheduled
\* and has not ticked.  The Z was created and moved down six rows
EdgePlay3 ==
  Play(EdgePlay2,
       Times(<<"left">>, 4) \o << <<"space">>, <<"tick", 0>> >> \o Times(<<"down">>, 6), 1)

\* the living Z was moved down to rows 12-13, right by two columns and down
\* into rows 13-14 of columns 6-8, under the hanging J; it has not landed
EdgePlay4 ==
  Play(EdgePlay3, Times(<<"down">>, 6) \o << <<"right">>, <<"right">>, <<"down">> >>, 1)

\* four ticks of the settle interval: the J fell through the living Z to
\* rows 14-15 and completed row 14, which was cleared with the lower row of
\* the Z; the Z lives on as [[1,1]] on row 13, columns 6-7
EdgePlay5 == Play(EdgePlay4, Times(<<"move">>, 4), 1)

\* the rest of the Z was moved right to columns 8-9 and once more against
\* the wall, which raised its pivot to 1
EdgePlay == Play(EdgePlay5, Times(<<"right">>, 3), 1)

\* I, I on row 15 (columns 0-3 and 4-7) and an upright I in column 8 (rows
\* 12-15): row 15 is full except for column 9.  The living I is next to be
\* turned; an I is next
GapPlay1 ==
  Play(Started,
       Times(<<"left">>, 4) \o << <<"space">>, <<"tick", 0>>, <<"space">>, <<"tick", 0>>,
                                  <<"up">> >>
         \o Times(<<"right">>, 4) \o << <<"space">>, <<"tick", 0>> >>, 1)

\* the living I was turned upright and moved to column 9, where it stands in
\* rows 0-3
GapPlay == Play(GapPlay1, << <<"up">> >> \o Times(<<"right">>, 5), 1)

\* as GapPlay1, with two more I on row 14 (columns 0-3 and 4-7): rows 14 and
\* 15 are full except for column 9
TwoGapPlay1 ==
  Play(GapPlay1,
       Times(<<"left">>, 4) \o << <<"space">>, <<"tick", 0>>, <<"space">>, <<"tick", 0>> >>, 1)

\* the living I was turned upright and moved to column 9
TwoGapPlay == Play(TwoGapPlay1, << <<"up">> >> \o Times(<<"right">>, 5), 1)

\* from ClearedPlay, three Tets land before the settle interval ticks: an I
\* on the hanging I (row 13, columns 0-3), an O on the floor (columns 4-5) and
\* an I on the hanging rest of the O (row 13, columns 6-9)
RiderPlay ==
  Play(ClearedPlay,
       << <<"tick", 3>> >> \o Times(<<"left">>, 4) \o
       << <<"space">>, <<"tick", 0>>, <<"space">>, <<"tick", 0>>,
          <<"right">>, <<"right">>, <<"space">> >>, 1)

\* as CavePlay2, with the living J moved to columns 7-9: when it lands it
\* completes row 14, the middle row of the upright L of column 4
SplitPlay == Play(CavePlay2, Times(<<"right">>, 3), 1)

\* I, I on row 15 (columns 0-3 and 4-7); a J is living; an I is next
StripPlay1 ==
  Play(Started,
       Times(<<"left">>, 4) \o << <<"space">>, <<"tick", 1>>, <<"space">>, <<"tick", 0>> >>, 1)

\* the living J was turned once (its foot to the left of its stem) and moved
\* to columns 8-9: when it lands its foot completes row 15
StripPlay == Play(StripPlay1, << <<"up">> >> \o Times(<<"right">>, 4), 1)

\* a game whose first Tet is an O, started with the P key: the O was moved
\* down 14 times on the empty board and stands in rows 14-15, not landed
OPlay ==
  Play(Play(Collect(Construct(3, 0, 0)), << <<"p">> >> \o Times(<<"down">>, 7), 1),
       Times(<<"down">>, 7), 1)

\* n calls of moveDown on Tet id
RECURSIVE MoveDownTimes(_, _, _)
MoveDownTimes(s, id, n) ==
  IF n = 0 THEN s ELSE MoveDownTimes(moveDown(s, id), id, n - 1)

\* a game whose first Tet is an O, started: the O stands at row 0, column 4
\* of the empty board; then 14, 15 and 16 calls of its moveDown
OStart == Play(Collect(Construct(3, 0, 0)), << <<"p">> >>, 1)
ODown14 == MoveDownTimes(MoveDownTimes(OStart, OStart.currTet, 7), OStart.currTet, 7)
ODown15 == moveDown(ODown14, OStart.currTet)
ODown16 == moveDown(ODown15, OStart.currTet)

----------------------------------------------------------------------------
(* The program as a state machine *)

\* handler runs explored from a state reached by one of the plays above
MaxEvents == 3
\* handler runs explored from a new game (constructed or reset)
FreshEvents == 1
\* resets explored from an initial state
MaxResets == 1
\* handler runs explored from a state where the living Tet is about to land
LandEvents == 1
\* handler runs explored from the state where a landing will split a Tet
SplitEvents == 2

Load(s) ==
  /\ tets = s.tets /\ devModeOn = s.devModeOn /\ newTet = s.newTet
  /\ currTet = s.currTet /\ nextTet = s.nextTet /\ updateLanded = s.updateLanded
  /\ allTets = s.allTets /\ tetsToRemove = s.tetsToRemove /\ score = s.score
  /\ updateScore = s.updateScore /\ loop = s.loop /\ dropOnce = s.dropOnce
  /\ gameOver = s.gameOver /\ landed = s.landed /\ paused = s.paused
  /\ pausedBeforeBlur = s.pausedBeforeBlur /\ dropLoops = s.dropLoops
  /\ moveLoops = s.moveLoops /\ highScores = s.highScores

\* the fields a handler leaves become the next state
Store(s) ==
     /\ tets' = s.tets /\ devModeOn' = s.devModeOn /\ newTet' = s.newTet
     /\ currTet' = s.currTet /\ nextTet' = s.nextTet /\ updateLanded' = s.updateLanded
     /\ allTets' = s.allTets /\ tetsToRemove' = s.tetsToRemove /\ score' = s.score
     /\ updateScore' = s.updateScore /\ loop' = s.loop /\ dropOnce' = s.dropOnce
     /\ gameOver' = s.gameOver /\ landed' = s.landed /\ paused' = s.paused
     /\ pausedBeforeBlur' = s.pausedBeforeBlur /\ dropLoops' = s.dropLoops
     /\ moveLoops' = s.moveLoops /\ highScores' = s.highScores

\* s2 is the state a handler leaves; op names the handler, acc tells whether
\* its guard let it act, ret what its call returned
Run(s2, op, acc, ret) ==
  /\ lastRun' = [op |-> op, acc |-> acc, ret |-> ret]
  /\ Store(Collect(s2))

Commit(s2, op, acc, ret) ==
  /\ Run(s2, op, acc, ret)
  /\ budget' = budget - 1
  /\ UNCHANGED resets

\* the draws of createTet that can make a difference: the second only when
\* the first is 0
Draws == { d \in Rand \X Rand \X Rand : d[1] = 0 \/ d[2] = 0 }

Init ==
  /\ \/ /\ \E d \in Draws : Load(Collect(Construct(d[1], d[2], d[3])))
        /\ budget = FreshEvents
        /\ lastRun = [op |-> "init", acc |-> TRUE, ret |-> TRUE]
     \/ /\ \/ Load(PivotPlay)
           \/ Load(ClearPlay)
           \/ Load(ClearedPlay)
           \/ Load(TallPlay)
           \/ Load(CavePlay)
        /\ budget = MaxEvents
        /\ lastRun = [op |-> "play", acc |-> TRUE, ret |-> TRUE]
     \/ /\ \/ Load(GapPlay)
           \/ Load(TwoGapPlay)
           \/ Load(OPlay)
           \/ Load(StripPlay)
           \/ Load(EdgePlay)
        /\ budget = LandEvents
        /\ lastRun = [op |-> "play", acc |-> TRUE, ret |-> TRUE]
     \/ /\ \/ Load(SplitPlay)
           \/ Load(RiderPlay)
        /\ budget = SplitEvents
        /\ lastRun = [op |-> "play", acc |-> TRUE, ret |-> TRUE]
  /\ resets = 0

\* the guard of the commands that act on the living Tet
Moving == canTetMove(State) /\ currTet # Null

Blur ==
  /\ budget > 0
  /\ Commit(onblur(State), "blur", ~gameOver, TRUE)

Focus ==
  /\ budget > 0
  /\ Commit(onfocus(State), "focus", ~pausedBeforeBlur /\ ~gameOver, TRUE)

\* a handler that does not return takes no step
KeySpace ==
  /\ budget > 0
  /\ canTetMove(State) => DropEnds(State)
  /\ Commit(keySpace(State), "space", canTetMove(State), TRUE)

KeyUp ==
  /\ budget > 0
  /\ Commit(keyUp(State), "up", Moving, Moving /\ rotate(State, currTet).ret)

KeyLeft ==
  /\ budget > 0
  /\ Commit(keyLeft(State), "left", Moving, TRUE)

KeyRight ==
  /\ budget > 0
  /\ Commit(keyRight(State), "right", Moving, TRUE)

KeyDown ==
  /\ budget > 0
  /\ Commit(keyDown(State), "down", Moving, TRUE)

KeyPause ==
  /\ budget > 0
  /\ Commit(keyPause(State), "pause", ~gameOver, TRUE)

\* the new game is explored as far as a constructed one
KeyReset ==
  /\ budget > 0
  /\ resets < MaxResets
  /\ resets' = resets + 1
  /\ budget' = IF budget - 1 > FreshEvents THEN FreshEvents ELSE budget - 1
  /\ \E d \in Draws : Run(keyReset(State, d[1], d[2], d[3]), "reset", TRUE, TRUE)

\* the developer's keys; the draws are taken only when createTet runs
KeyDev ==
  /\ budget > 0
  /\ \/ Commit(keyEnd(State), "end", devModeOn, TRUE)
     \/ \E d \in (IF devModeOn THEN Draws ELSE {<<0, 0, 0>>}) :
           Commit(keyTestCase(State, d[1], d[2], d[3]), "testCase", devModeOn, TRUE)
     \/ Commit(keyGameOver(State, 0), "gameOver", devModeOn, TRUE)
     \/ Commit(keyResetHighScores(State), "resetHighScores", devModeOn, TRUE)

KeyTilde ==
  /\ budget > 0
  /\ Commit(keyTilde(State), "tilde", TRUE, TRUE)

\* a drop-loop interval ticks; the draw is taken only when createTet runs
DropTick ==
  /\ budget > 0
  /\ dropLoops > 0
  /\ \E r \in (IF newTet THEN Rand ELSE {0}) :
        Commit(dropTick(State, r, r, r), "dropTick", TRUE, TRUE)

\* the k-th settle interval ticks
MoveTick ==
  /\ budget > 0
  /\ \E k \in 1..Len(moveLoops) : Commit(moveTick(State, k), "moveTick", TRUE, TRUE)

Next ==
  \/ Blur \/ Focus
  \/ KeySpace \/ KeyUp \/ KeyLeft \/ KeyRight \/ KeyDown
  \/ KeyPause \/ KeyReset \/ KeyDev \/ KeyTilde
  \/ DropTick \/ MoveTick

Spec == Init /\ [][Next]_vars

----------------------------------------------------------------------------
(* The settle intervals under fair scheduling.  A scheduled interval keeps *)
(* ticking every 200 ms whatever else happens, so its ticks are not        *)
(* counted in the budget of handler runs: after the last key press and the *)
(* last drop tick explored, the settle intervals tick on.                  *)

\* handler runs explored from a state where Tets are about to settle
FairEvents == 3

\* a settle interval is scheduled (ClearedPlay, CavePlay, RiderPlay) or the
\* living Tet is about to land and clear (TwoGapPlay, SplitPlay)
FairInit ==
  /\ \/ Load(ClearedPlay)
     \/ Load(CavePlay)
     \/ Load(RiderPlay)
     \/ Load(TwoGapPlay)
     \/ Load(SplitPlay)
  /\ budget = FairEvents
  /\ lastRun = [op |-> "play", acc |-> TRUE, ret |-> TRUE]
  /\ resets = 0

\* ret alternates from one tick to the next, so that a tick is a step of
\* its own also when its callback leaves the game as it is
Tock == ~(lastRun.op = "moveTick" /\ lastRun.ret)

SettleTick ==
  /\ \E k \in 1..Len(moveLoops) : Run(moveTick(State, k), "moveTick", TRUE, Tock)
  /\ UNCHANGED <<budget, resets>>

\* the callback of a scheduled settle interval runs
Ticked ==
  /\ Len(moveLoops) > 0
  /\ lastRun' = [op |-> "moveTick", acc |-> TRUE, ret |-> Tock]

FairNext ==
  \/ Blur \/ Focus
  \/ KeySpace \/ KeyUp \/ KeyLeft \/ KeyRight \/ KeyDown
  \/ KeyPause \/ KeyReset \/ KeyDev \/ KeyTilde
  \/ DropTick \/ SettleTick

\* a scheduled interval is not starved: while a settle interval is scheduled
\* a callback of one runs again and again
FairSpec == FairInit /\ [][FairNext]_vars /\ WF_lastRun(Ticked)

----------------------------------------------------------------------------
(* Tet.setShape on its own: a Tet of allTets holds a shape drawn from a    *)
(* bounded set and setShape gives it the perimeter getPerim finds for it   *)

\* the shapes drawn: up to MaxShapeRows rows of up to MaxRowLen values each,
\* and the shapes of the catalog of getPerim
MaxShapeRows == 3
MaxRowLen == 2
CellValues == {0, 1, 2}
ShapeRows == UNION { [1..m -> CellValues] : m \in 0..MaxRowLen }
PerimShapes ==
  UNION { [1..n -> ShapeRows] : n \in 0..MaxShapeRows }
    \cup { periMatrix[p][1] : p \in 1..Len(periMatrix) }

\* new Tet(game, -1) of line 1438, pushed on allTets, with a shape and no
\* perimeter yet
PerimInit ==
  /\ \E shape \in PerimShapes :
        Load([ tets |-> (1 :> [NewFragment(0, [shape |-> shape,
                                               topLeft |-> [row |-> 0, col |-> 0]])
                                 EXCEPT !.perim = << >>]),
               devModeOn |-> FALSE, newTet |-> TRUE,
               currTet |-> Null, nextTet |-> Null, updateLanded |-> TRUE,
               allTets |-> <<1>>, tetsToRemove |-> << >>, score |-> 0,
               updateScore |-> TRUE, loop |-> FALSE, dropOnce |-> FALSE,
               gameOver |-> FALSE, landed |-> {}, paused |-> TRUE,
               pausedBeforeBlur |-> TRUE, dropLoops |-> 0, moveLoops |-> << >>,
               highScores |-> <<0, 0, 0, 0, 0, 0, 0, 0, 0, 0>> ])
  /\ budget = 1
  /\ lastRun = [op |-> "init", acc |-> TRUE, ret |-> TRUE]
  /\ resets = 0

\* the Tet calls setShape with its shape
SetShape ==
  /\ budget > 0
  /\ Commit(setShape(State, 1, tets[1].shape), "setShape", TRUE, TRUE)

PerimNext == SetShape

PerimSpec == PerimInit /\ [][PerimNext]_vars

----------------------------------------------------------------------------
(* The properties checked *)

\* the interval callbacks and the commands that act on the living Tet
Ticks == {"dropTick", "moveTick"}
Commands == {"up", "left", "right", "down", "space"}

\* the landed Tets: the members of allTets other than the living Tet
LandedIds == { allTets[i] : i \in 1..Len(allTets) } \ {currTet}

OnBoard(p) == p[1] \in 0..(BOARD_ROW_NUM - 1) /\ p[2] \in 0..(BOARD_COL_NUM - 1)

\* the step leaves every Tet where and as it was, and allTets and the score
PiecesKept ==
  /\ \A id \in DOMAIN tets \cap DOMAIN tets' :
        /\ tets'[id].topLeft = tets[id].topLeft
        /\ tets'[id].shape = tets[id].shape
  /\ allTets' = allTets
  /\ score' = score

\* the state of the game and of its Tets, and the intervals scheduled
ProgramVars ==
  <<tets, devModeOn, newTet, currTet, nextTet, updateLanded, allTets, tetsToRemove,
    score, updateScore, loop, dropOnce, gameOver, landed, paused, pausedBeforeBlur,
    dropLoops, moveLoops, highScores>>

\* the gate of the commands fails, stated from the flags
GateFails == gameOver \/ (~devModeOn /\ (newTet \/ paused))

\* C1: in every reachable state every landed Tet (every member of allTets
\* other than the living Tet) has all its cells in rows 0..15 and columns
\* 0..9, and no cell of the board is held by two landed Tets
LandedInBoardAndDisjoint ==
  /\ \A id \in LandedIds : \A p \in Cells(tets[id]) : OnBoard(p)
  /\ \A a, b \in LandedIds : a # b => Cells(tets[a]) \cap Cells(tets[b]) = {}

\* C2: rotate() on the living Tet either returns true with the rotation
\* advanced by one modulo 4 and the shape of the catalog for the type and the
\* new rotation, or returns false and leaves rotation, shape, perimeter,
\* topLeft and pivot as they were
RotateAllOrNothing ==
  [][(lastRun'.op = "up" /\ lastRun'.acc) =>
       IF lastRun'.ret
       THEN /\ tets'[currTet].rotation = (tets[currTet].rotation + 1) % 4
            /\ tets'[currTet].shape =
                 getShapeMatrix(tets[currTet].type, tets'[currTet].rotation)
       ELSE /\ tets'[currTet].rotation = tets[currTet].rotation
            /\ tets'[currTet].shape = tets[currTet].shape
            /\ tets'[currTet].perim = tets[currTet].perim
            /\ tets'[currTet].topLeft = tets[currTet].topLeft
            /\ tets'[currTet].pivot = tets[currTet].pivot]_vars

\* a rotation of the living Tet was rejected
RotateRejected == lastRun.op = "up" /\ lastRun.acc /\ ~lastRun.ret

\* C3: at most one settle interval is scheduled at any time, also when a
\* second Tet lands and clears a row while the first settle is in progress
OneSettleTimer == Len(moveLoops) <= 1

\* C4: after any sequence of ticks and commands at most one drop-loop
\* interval is scheduled
OneDropTimer == dropLoops <= 1

\* the space bar or the down arrow restarted the drop loop of a running game
DropLoopRestarted ==
  lastRun.op \in {"space", "down"} /\ lastRun.acc /\ ~paused /\ dropLoops = 1

\* C5: with dev mode off, while the game is paused no interval callback
\* (drop tick or settle tick) changes the topLeft or the shape of a Tet,
\* the membership of allTets or the score
PausedTicksInert ==
  [][(paused /\ ~devModeOn /\ lastRun'.op \in Ticks) => PiecesKept]_vars

\* C6: once createTet has set gameOver, no interval callback (drop tick or
\* settle tick) changes the position or the shape of a Tet, the membership
\* of allTets or the score, until a reset
GameOverTicksInert ==
  [][(gameOver /\ lastRun'.op \in Ticks) => PiecesKept]_vars

\* C7: a rotate, move-left, move-right, move-down or hard-drop command
\* delivered while the gate fails (game over; or, with dev mode off, a spawn
\* pending or the game paused) changes no state of the game or of a Tet and
\* neither starts nor cancels an interval
GatedCommandsInert ==
  [][(lastRun'.op \in Commands /\ GateFails) => UNCHANGED ProgramVars]_vars

\* a command was delivered while the gate failed
CommandRejected == lastRun.op \in Commands /\ ~lastRun.acc /\ GateFails

\* C8: whenever a living Tet exists (currTet not null, no spawn pending, the
\* game not over) it is a member of allTets
LivingInAllTets ==
  (currTet # Null /\ ~newTet /\ ~gameOver) =>
     \E i \in 1..Len(allTets) : allTets[i] = currTet

\* C9: the first living Tet of a game (after the construction and after
\* every reset) is never an S (4) or a Z (6)
FirstTetNotSZ ==
  lastRun.op \in {"init", "reset"} => tets[currTet].type \notin {4, 6}

\* C10: the pivot of a Tet is increased only by the side-collision check of
\* a move to the right that fails, and then by exactly 1; every successful
\* rotate and every move-left leave it at 0, so a move-left collision never
\* increases it
PivotRule ==
  [][/\ \A id \in DOMAIN tets \cap DOMAIN tets' :
           tets'[id].pivot > tets[id].pivot =>
              /\ lastRun'.op = "right"
              /\ tets'[id].pivot = tets[id].pivot + 1
              /\ tets'[id].topLeft = tets[id].topLeft
     /\ (lastRun'.op = "up" /\ lastRun'.acc /\ lastRun'.ret) =>
           tets'[currTet].pivot = 0
     /\ (lastRun'.op = "left" /\ lastRun'.acc) => tets'[currTet].pivot = 0]_vars

\* a move to the right failed and raised the pivot of the living Tet
PivotRaised ==
  /\ lastRun.op = "right" /\ lastRun.acc /\ currTet # Null
  /\ tets[currTet].pivot = 1

\* the members of a list of Tets
Members(seq) == { seq[i] : i \in 1..Len(seq) }

\* the cells of the landed Tets, and the cells of allTets after the step
LandedCells == UNION { Cells(tets[id]) : id \in LandedIds }
CellsAfter == UNION { Cells(tets'[id]) : id \in Members(allTets') }

\* no member of allTets holds a cell of row r after the step
RowEmptyAfter(r) == \A p \in CellsAfter : p[1] # r

\* the step lands the living Tet
Landing ==
  /\ lastRun'.op \in {"space", "down", "dropTick"} /\ lastRun'.acc
  /\ currTet # Null /\ ~newTet /\ newTet'

\* the living Tet is an upright I over an empty column; the landed Tets fill
\* row 15 in every other column and fill no other row that far
GapUnderI ==
  /\ currTet # Null /\ ~newTet
  /\ tets[currTet].type = 0 /\ Len(tets[currTet].shape) = 4
  /\ \A p \in LandedCells : p[2] # tets[currTet].topLeft.col
  /\ \A c \in (0..(BOARD_COL_NUM - 1)) \ {tets[currTet].topLeft.col} :
        <<15, c>> \in LandedCells
  /\ \A r \in 12..14 :
        \E c \in (0..(BOARD_COL_NUM - 1)) \ {tets[currTet].topLeft.col} :
           <<r, c>> \notin LandedCells

\* C11: when row 15 is full except for one cell and an upright I lands in
\* that cell's column, exactly row 15 is cleared (the cells of rows 12-14
\* stay, the I's included), the score grows by exactly 10000 and no Tet
\* keeps a cell of row 15
OneRowCleared ==
  [][(GapUnderI /\ Landing) =>
       /\ score' = score + 10000
       /\ RowEmptyAfter(15)
       /\ CellsAfter =
            { p \in LandedCells : p[1] # 15 }
              \cup { <<r, tets[currTet].topLeft.col>> : r \in 12..14 }]_vars

\* the upright I has landed in the gap of GapPlay: two upright rests of
\* three cells stand in columns 8 and 9
GapCleared ==
  /\ lastRun.op = "space" /\ score = 10000 /\ Len(allTets) = 2
  /\ LandedCells = (12..14) \X (8..9)

\* the step clears rows (a reset sets the score to 0)
ClearStep == score' > score

\* the score of one clear of n rows is above n * 10000, for n in {2, 3, 4}
BonusAboveFlat == \A n \in 2..4 : RowScore(n) > n * 10000

\* the rows a clearing step empties: no Tet moves in such a step but the Tet
\* a hard drop lands, which fills at most four cells of a row
ClearedRows ==
  { r \in 0..(BOARD_ROW_NUM - 1) :
      /\ RowEmptyAfter(r)
      /\ \E id \in Members(allTets) \ {currTet} : \E p \in Cells(tets[id]) : p[1] = r }

\* C12: for n in {2, 3, 4} one landing that clears n rows adds strictly more
\* to the score than n clears of one row (n * 10000): every step that clears
\* n rows adds RowScore(n), which is above n * 10000 when n >= 2
MultiRowBonus ==
  [][/\ BonusAboveFlat
     /\ (ClearStep /\ Landing) =>
          /\ score' - score = RowScore(Cardinality(ClearedRows))
          /\ Cardinality(ClearedRows) >= 2 =>
                score' - score > Cardinality(ClearedRows) * 10000]_vars

\* one landing has cleared two rows of a game whose score was 0
TwoRowsAtOnce == lastRun.op = "space" /\ score = RowScore(2) /\ score > 20000

\* the Tets that stand, before the step, where the clear finds them: all
\* but the Tet a hard drop moves
Still == Members(allTets) \ (IF lastRun'.op = "space" THEN {currTet} ELSE {})

\* C13: when a row clear zeroes every cell of a Tet the Tet is absent from
\* allTets after the step, every Tet that keeps a cell is still present, and
\* no member of allTets is left without a cell, also when several Tets are
\* removed by the same clear
ClearedTetsRemoved ==
  [][ClearStep =>
       /\ \A id \in Still :
             (id \in Members(allTets')) <=>
                (\E p \in Cells(tets[id]) : ~RowEmptyAfter(p[1]))
       /\ \A id \in Members(allTets') : Cells(tets'[id]) # {}]_vars

\* a clear has removed two I of row 15 at once and kept the upright I of
\* column 8
SeveralRemoved ==
  /\ lastRun.op = "space" /\ score = 10000 /\ Len(moveLoops) = 1
  /\ allTets = <<3, 4>>
  /\ tets[3].shape = <<<<1>>, <<1>>, <<1>>>>

\* the rows of Tet id that the clear leaves, the first rows of their runs
\* of consecutive rows, and the cells of the run that starts at row r0
RowsLeft(id) == { p[1] : p \in { q \in Cells(tets[id]) : ~RowEmptyAfter(q[1]) } }
RunStarts(id) == { r \in RowsLeft(id) : (r - 1) \notin RowsLeft(id) }
TopRun(id) == CHOOSE r \in RunStarts(id) : \A q \in RunStarts(id) : r <= q
RunCells(id, r0) ==
  { p \in Cells(tets[id]) :
      p[1] >= r0 /\ \A x \in r0..p[1] : x \in RowsLeft(id) }

\* the Tets the step pushes on allTets, and those of them that carry the type
\* of Tet id and hold the cells of its run from row r0
NewTets == Members(allTets') \ Members(allTets)
FragmentsOf(id, r0) ==
  { n \in NewTets : /\ tets'[n].type = tets[id].type
                    /\ Cells(tets'[n]) = RunCells(id, r0) }

\* Tet n holds a lower run of a Tet of its type (of the Tet a hard drop
\* moves, the place at the clear is not the place before the step)
IsLowerRun(n) ==
  \/ \E id \in Still :
        /\ RunStarts(id) # {}
        /\ \E r0 \in RunStarts(id) \ {TopRun(id)} : n \in FragmentsOf(id, r0)
  \/ /\ lastRun'.op = "space" /\ currTet # Null
     /\ tets'[n].type = tets[currTet].type

\* the cells of Tet id one row further down
OneDown(id) == { <<p[1] + 1, p[2]>> : p \in Cells(tets[id]) }

\* C14: a Tet whose rows left by a clear form k runs becomes k Tets: the
\* Tet itself holds the top run, each of the k - 1 lower runs is held by
\* exactly one new Tet of the same type, every new Tet is such a run and has
\* a perimeter, and a settle pass moves each Tet on its own (it stays or
\* goes down one row)
SplitIntoRuns ==
  [][/\ ClearStep =>
          /\ \A id \in Still : RunStarts(id) # {} =>
                /\ Cells(tets'[id]) = RunCells(id, TopRun(id))
                /\ tets'[id].type = tets[id].type
                /\ \A r0 \in RunStarts(id) \ {TopRun(id)} :
                      Cardinality(FragmentsOf(id, r0)) = 1
          /\ \A n \in NewTets : tets'[n].perim # << >> /\ IsLowerRun(n)
     /\ (lastRun'.op = "moveTick" /\ score' = score) =>
          \A id \in Members(allTets) \cap Members(allTets') :
             \/ Cells(tets'[id]) = Cells(tets[id])
             \/ Cells(tets'[id]) = OneDown(id)]_vars

\* the L of SplitPlay has lost its middle row: after one settle pass its top
\* cell has gone down to row 14 while its foot, a new Tet, rests on row 15
FragmentsDropApart ==
  /\ lastRun.op = "moveTick"
  /\ \E id, n \in Members(allTets) :
        /\ tets[id].rotation # Undef /\ tets[n].rotation = Undef
        /\ tets[id].type = tets[n].type
        /\ Cells(tets[id]) = {<<14, 4>>}
        /\ Cells(tets[n]) = {<<15, 4>>, <<15, 5>>}

\* C15: in every state the living Tet, the next Tet and every member of
\* allTets, the fragments a clear leaves included, has a non-empty perimeter
AllHavePerim ==
  /\ currTet # Null => tets[currTet].perim # << >>
  /\ nextTet # Null => tets[nextTet].perim # << >>
  /\ \A id \in Members(allTets) : tets[id].perim # << >>

\* a landing has cleared a row: allTets holds a fragment made by updateTet (a
\* Tet without a rotation) and a Tet cut down to one cell
FragmentWithPerim ==
  /\ lastRun.op = "space" /\ score > 0
  /\ \E id \in Members(allTets) : tets[id].rotation = Undef
  /\ \E id \in Members(allTets) : tets[id].shape = <<<<1>>>>

\* the shapes of the two catalogs, and two places on the board
KnownShapes ==
  { periMatrix[p][1] : p \in 1..Len(periMatrix) }
    \cup { getShapeMatrix(type, rotation) : type \in 0..6, rotation \in 0..3 }
Places == { [row |-> 0, col |-> 0], [row |-> 12, col |-> 4] }

\* shape sh with the rows of Z set to zero, as alterShape leaves it
ZeroRows(sh, Z) ==
  [row \in 1..Len(sh) |->
     IF row \in Z THEN [col \in 1..Len(sh[row]) |-> 0] ELSE sh[row]]

\* the queue updateTet builds for shape sh at tl once the rows of Z are zero
QueueOf(sh, tl, Z) ==
  BuildQueue([shape |-> ZeroRows(sh, Z), topLeft |-> tl], 1, << >>, tl, << >>,
             Len(sh))

\* every entry updateTet hands to cleanShape, for the known shapes
Candidates ==
  UNION { Members(QueueOf(sh, tl, Z)) :
            <<sh, tl, Z>> \in { x \in KnownShapes \X Places \X SUBSET (1..4) :
                                  x[1] # << >> /\ x[3] \subseteq 1..Len(x[1]) } }

\* cleanShape twice is cleanShape once on every candidate, and the shapes of
\* the perimeter catalog, which are normalized, are returned unchanged
IdempotentOnCandidates ==
  /\ \A x \in Candidates : cleanShape(cleanShape(x)) = cleanShape(x)
  /\ \A p \in 1..Len(periMatrix) : \A tl \in Places :
        cleanShape([shape |-> periMatrix[p][1], topLeft |-> tl])
          = [shape |-> periMatrix[p][1], topLeft |-> tl]

\* C16: cleanShape is idempotent on every candidate updateTet makes (shape and
\* topLeft), and it returns a normalized shape unchanged: the shapes of the
\* perimeter catalog and the shape of every Tet of allTets that has a cell
CleanShapeIdempotent ==
  /\ IdempotentOnCandidates
  /\ \A id \in Members(allTets) : Cells(tets[id]) # {} =>
        cleanShape([shape |-> tets[id].shape, topLeft |-> tets[id].topLeft])
          = [shape |-> tets[id].shape, topLeft |-> tets[id].topLeft]

\* the J of StripPlay has landed and lost its foot with row 15: cleanShape
\* has dropped the empty first column of its stem, which stands in column 9
CleanedRun ==
  /\ lastRun.op = "space" /\ score = 10000
  /\ \E id \in Members(allTets) :
        /\ tets[id].type = 1 /\ tets[id].rotation = 1
        /\ tets[id].shape = <<<<1>>, <<1>>>>
        /\ tets[id].topLeft = [row |-> 13, col |-> 9]

\* in state s the O of OStart has landed in rows 14-15 of columns 4-5, no
\* access has thrown, no row was cleared and the score has not changed
OLanded(s) ==
  /\ ~s.exc /\ s.newTet /\ s.currTet = Null
  /\ s.tets[OStart.currTet].topLeft = [row |-> 14, col |-> 4]
  /\ s.tets[OStart.currTet].shape = <<<<1, 1>>, <<1, 1>>>>
  /\ s.allTets = OStart.allTets
  /\ s.score = OStart.score /\ s.moveLoops = << >>

\* on the empty board an O at row 0, column 4 is moved down by 14 calls of
\* moveDown, lands at row 14, column 4 on the 15th, and one more call leaves
\* it there: no access out of range, no row cleared, no score change
OScenario ==
  /\ OStart.tets[OStart.currTet].type = 3
  /\ OStart.tets[OStart.currTet].topLeft = [row |-> 0, col |-> 4]
  /\ OStart.allTets = <<OStart.currTet>> /\ OStart.score = 0
  /\ ~ODown14.exc /\ ODown14.currTet = OStart.currTet
  /\ ODown14.tets[OStart.currTet].topLeft = [row |-> 14, col |-> 4]
  /\ OLanded(ODown15)
  /\ OLanded(ODown16)

\* C17: on the empty board an O at row 0, column 4 that gets 15 calls of
\* moveDown and one more ends landed at row 14, column 4, with no access out
\* of range, no row cleared and no score change; and no O of the game ever
\* stands below row 14
OLandsOnFloor ==
  /\ OScenario
  /\ \A id \in Members(allTets) :
        (tets[id].type = 3 /\ Len(tets[id].shape) = 2) => tets[id].topLeft.row <= 14

\* the O of OPlay was moved down once more with the down arrow and has landed
\* on the floor
OOnFloor ==
  /\ lastRun.op = "down" /\ lastRun.acc /\ newTet /\ currTet = Null
  /\ score = 0 /\ Len(allTets) = 1
  /\ tets[allTets[1]].type = 3
  /\ tets[allTets[1]].topLeft = [row |-> 14, col |-> 4]

\* no entry of the list is below a later one
Descending(hs) == \A i, j \in 1..Len(hs) : i < j => hs[i] >= hs[j]

\* the list of ten entries that holds v[1] up to place a, v[2] up to place b,
\* v[3] up to place c and v[4] from there on
Ranked(v, a, b, c) ==
  [i \in 1..10 |-> IF i <= a THEN v[1] ELSE IF i <= b THEN v[2]
                   ELSE IF i <= c THEN v[3] ELSE v[4]]

\* every descending list of ten entries over four amounts
RankedLists(v) ==
  { Ranked(v, x[1], x[2], x[3]) :
      x \in { y \in (0..10) \X (0..10) \X (0..10) : y[1] <= y[2] /\ y[2] <= y[3] } }

\* scores in whole points, and the lists over four of them
PointScores == {0, 1, 10000, 10001, 21435, 37371, 60628}
PointLists == RankedLists(<<37371, 21435, 10000, 0>>)

\* scores in thousandths of a point, and the lists over four amounts of two
\* decimals
MilliScores ==
  {0, 10000000, 21435460, 21435464, 21435465, 21435469, 21435470, 21435474,
   37371928, 60628662}
MilliLists == RankedLists(<<37371930, 21435470, 21435460, 0>>)

\* both insertions keep each of these lists at length 10 and descending, for
\* each of these scores and for a score equal to the lowest entry
InsertKeepsRanked ==
  /\ \A hs \in PointLists : \A sc \in PointScores \cup {hs[10]} :
        /\ Len(InsertScore(hs, sc)) = 10
        /\ Descending(InsertScore(hs, sc))
  /\ \A hs \in MilliLists : \A sc \in MilliScores \cup {hs[10]} :
        /\ Len(InsertScoreFixed(hs, sc)) = 10
        /\ Descending(InsertScoreFixed(hs, sc))

\* C18: checkHighScore keeps the list at its length of 10 and keeps a
\* descending list descending, for every score, a score equal to the lowest
\* entry included; so does the checkHighScore of src/src/main.js, which
\* splices in score.toFixed(2); the stored list is always such a list
HighScoresRanked ==
  /\ Len(highScores) = 10 /\ Descending(highScores)
  /\ InsertKeepsRanked

\* a game with a score has ended and a draw has put its score on top of the
\* list
ScoreOnList ==
  /\ gameOver /\ ~updateScore /\ score > 0
  /\ highScores[1] = score /\ highScores[2] = 0
  /\ lastRun.op = "dropTick"

\* the commands that set updateScore or store a list: reset and the dev-mode
\* commands (test case, game over, reset of the high scores)
ScoreCommands == {"reset", "testCase", "gameOver", "resetHighScores"}

\* C19: the score of a finished game is put on the list exactly once: the
\* step that ends the game draws, splices the score in and clears
\* updateScore; while the game stays over and updateScore is clear no step
\* but a dev-mode command changes the list; updateScore is set again only by
\* reset or a dev-mode command
ScoreInsertedOnce ==
  [][/\ (gameOver' /\ ~gameOver) =>
          /\ highScores' = InsertScore(highScores, score')
          /\ ~updateScore'
     /\ (gameOver /\ gameOver' /\ ~updateScore
           /\ lastRun'.op \notin ScoreCommands) =>
          /\ highScores' = highScores
          /\ ~updateScore'
     /\ (updateScore' /\ ~updateScore) => lastRun'.op \in ScoreCommands]_vars

\* the game is over, its score stands once on the list, and a settle tick
\* has drawn again since
DrawnAgain ==
  /\ gameOver /\ ~updateScore /\ score > 0
  /\ highScores[1] = score /\ highScores[2] = 0
  /\ lastRun.op = "moveTick"

\* C20: after a rotate() that returned true every occupied cell of the
\* living Tet at its committed place lies inside the board and on no cell of
\* a landed Tet
RotateCommitsValid ==
  (lastRun.op = "up" /\ lastRun.acc /\ lastRun.ret /\ currTet # Null) =>
     /\ \A p \in Cells(tets[currTet]) : OnBoard(p)
     /\ Cells(tets[currTet]) \cap LandedCells = {}

\* the cells of the landed Tets after the step
LandedCellsAfter ==
  UNION { Cells(tets'[id]) : id \in Members(allTets') \ {currTet'} }

\* C21: a settle tick never moves a landed Tet onto a cell of the living Tet:
\* when the living Tet is clear of the landed Tets before a settle tick, it is
\* clear of them after it
SettleAvoidsLiving ==
  [][(/\ lastRun'.op = "moveTick"
      /\ currTet # Null /\ ~newTet /\ currTet' = currTet /\ ~newTet'
      /\ Cells(tets[currTet]) \cap LandedCells = {}) =>
        Cells(tets'[currTet]) \cap LandedCellsAfter = {}]_vars

\* the landed Tets fill every column of row r
RowFull(r) == \A c \in 0..(BOARD_COL_NUM - 1) : <<r, c>> \in LandedCells

\* C22: whenever no settle interval is scheduled no row of the board is
\* filled by landed Tets: every row completed by a landing or by Tets
\* settling after a clear is detected and cleared
NoFullRowAtRest ==
  Len(moveLoops) = 0 => \A r \in 0..(BOARD_ROW_NUM - 1) : ~RowFull(r)

\* the cells of the Tets of allTets when alterShapes is called in the step:
\* a hard drop has moved the living Tet k rows down before, no other step
\* that clears moves a Tet
CellsAtClear(k) ==
  UNION { IF id = currTet /\ lastRun'.op = "space"
            THEN { <<p[1] + k, p[2]>> : p \in Cells(tets[id]) }
            ELSE Cells(tets[id]) : id \in Members(allTets) }

\* the rows that the cells of B fill
FullRowsOf(B) ==
  { r \in 0..(BOARD_ROW_NUM - 1) : \A c \in 0..(BOARD_COL_NUM - 1) : <<r, c>> \in B }

\* the step takes the cells of a set of full rows from the board, as many rows
\* as the score pays for, and leaves every other cell where it is
ExactRowsGone(k) ==
  \E F \in SUBSET FullRowsOf(CellsAtClear(k)) :
     /\ F # {}
     /\ score' - score = RowScore(Cardinality(F))
     /\ CellsAfter = { p \in CellsAtClear(k) : p[1] \notin F }

\* C23: alterShapes(fullRows) removes exactly the cells of the full rows: after
\* a step that clears, no Tet of allTets has a cell in a cleared row and the
\* cells of every other row are those of before (divided anew among Tets and
\* fragments, none moved, lost or made)
ClearTakesFullRowsOnly ==
  [][ClearStep =>
       \E k \in 0..(BOARD_ROW_NUM - 1) :
          /\ (lastRun'.op # "space" => k = 0)
          /\ ExactRowsGone(k)]_vars

\* a landing has cleared row 14, the middle row of the upright L of SplitPlay:
\* the L keeps its top cell in row 13 and a new Tet holds its foot in row 15
MiddleRowTaken ==
  /\ lastRun.op = "space" /\ score = 10000 /\ Len(moveLoops) = 1
  /\ \E a \in Members(allTets) : \E b \in Members(allTets) \ {a} :
        /\ tets[a].type = 2 /\ tets[b].type = 2
        /\ Cells(tets[a]) = {<<13, 4>>}
        /\ Cells(tets[b]) = {<<15, 4>>, <<15, 5>>}
  /\ \A id \in Members(allTets) : \A p \in Cells(tets[id]) : p[1] # 14

\* C24: a landing (a moveDown that collides) that completes no row leaves the
\* score, the shape and topLeft of every Tet and allTets as they are and
\* starts no settle interval: it changes the living-Tet slot (currTet,
\* newTet) and the dirty flag of the cache only (a hard drop has moved the
\* living Tet down its column before the moveDown that collides)
LandingWithoutRowFrame ==
  [][(Landing /\ score' = score) =>
       /\ allTets' = allTets
       /\ \A id \in Members(allTets) :
             /\ tets'[id].shape = tets[id].shape
             /\ tets'[id].topLeft.col = tets[id].topLeft.col
             /\ IF id = currTet /\ lastRun'.op = "space"
                THEN tets'[id].topLeft.row >= tets[id].topLeft.row
                ELSE tets'[id].topLeft.row = tets[id].topLeft.row
       /\ moveLoops' = moveLoops
       /\ currTet' = Null /\ newTet' /\ updateLanded'
       /\ nextTet' = nextTet /\ gameOver' = gameOver /\ paused' = paused
       /\ highScores' = highScores /\ tetsToRemove' = tetsToRemove]_vars

\* the first Tet of a game has landed on the empty floor by a hard drop:
\* no row is full, the score is 0 and no settle interval is scheduled
LandedOnEmptyFloor ==
  /\ lastRun.op = "space" /\ lastRun.acc /\ newTet /\ currTet = Null
  /\ score = 0 /\ Len(moveLoops) = 0 /\ Len(allTets) = 1
  /\ \E p \in Cells(tets[allTets[1]]) : p[1] = BOARD_ROW_NUM - 1

\* C25: no collision query reads stale occupancy: whenever the grid is not
\* marked dirty (the next getLanded() answers from it) its cells are those
\* of the Tets of allTets other than the living Tet, after a landing, a row
\* clear, a settle move, a spawn or a reset
MemoIsCurrent == ~updateLanded => landed = LandedCells

\* a move to the side was answered from the memoized grid while Tets stood
\* on the board
SideMoveReadMemo ==
  /\ lastRun.op \in {"left", "right"} /\ lastRun.acc
  /\ ~updateLanded /\ landed # {} /\ landed = LandedCells

\* a shape and a catalog shape have the same number of rows, the same length
\* in every row and the same zero/nonzero pattern
SamePattern(shape, cand) ==
  /\ Len(shape) = Len(cand)
  /\ \A row \in 1..Len(shape) :
        /\ Len(shape[row]) = Len(cand[row])
        /\ \A col \in 1..Len(shape[row]) :
              (shape[row][col] # 0) <=> (cand[row][col] # 0)

\* the perimeter of the first catalog entry of the same pattern, the empty
\* perimeter when there is none
PatternPerim(shape) ==
  LET hits == { p \in 1..Len(periMatrix) : SamePattern(shape, periMatrix[p][1]) }
  IN IF hits = {} THEN << >>
     ELSE periMatrix[CHOOSE p \in hits : \A q \in hits : p <= q][2]

\* C26: getPerim(shape) is the perimeter of the first catalog entry with the
\* same row count, the same length in every row and the same zero/nonzero
\* pattern, and the empty perimeter for every shape, the empty shape
\* included, that equals no catalog entry in this sense
PerimByPattern ==
  lastRun.op = "setShape" => tets[1].perim = PatternPerim(tets[1].shape)

\* a drop tick runs createTet while a next Tet is announced
SpawnStep ==
  /\ lastRun'.op = "dropTick" /\ newTet /\ nextTet # Null /\ ~gameOver

\* C27: a successful spawn makes the announced next Tet the living Tet (the
\* same object, of its type, rotation 0, topLeft row 0 col 4, as it was made)
\* and puts a newly created Tet, distinct from it, in nextTet; a spawn that
\* collides adds no Tet to allTets; a Tet is not changed while it is the
\* next Tet
AnnouncedTetSpawns ==
  [][/\ (nextTet # Null /\ ~gameOver) => tets[nextTet] = NewTet(tets[nextTet].type)
     /\ (SpawnStep /\ ~gameOver') =>
          /\ currTet' = nextTet /\ ~newTet'
          /\ tets'[currTet'].type = tets[nextTet].type
          /\ tets'[currTet'].rotation = 0
          /\ tets'[currTet'].topLeft = [row |-> 0, col |-> 4]
          /\ tets'[currTet'].shape = tets[nextTet].shape
          /\ allTets' = Append(allTets, currTet')
          /\ nextTet' # currTet' /\ nextTet' \notin DOMAIN tets
          /\ tets'[nextTet'] = NewTet(tets'[nextTet'].type)
     /\ (SpawnStep /\ gameOver') => allTets' = allTets]_vars

\* a drop tick has made the next Tet the living Tet after an earlier Tet
\* landed
SpawnedAfterLanding ==
  /\ lastRun.op = "dropTick" /\ ~newTet /\ ~gameOver
  /\ currTet # Null /\ Len(allTets) >= 2
  /\ allTets[Len(allTets)] = currTet
  /\ tets[currTet].topLeft = [row |-> 0, col |-> 4]
  /\ nextTet # Null /\ nextTet # currTet

\* a spawn has collided: the game is over and the Tet that collided is not
\* in allTets
SpawnCollided ==
  /\ lastRun.op = "dropTick" /\ gameOver /\ newTet
  /\ currTet # Null /\ currTet \notin Members(allTets)

\* the Tets that exist before and after the step keep shape and topLeft
TetsKept ==
  \A id \in DOMAIN tets \cap DOMAIN tets' :
     /\ tets'[id].topLeft = tets[id].topLeft
     /\ tets'[id].shape = tets[id].shape

\* the tick only spawns: no Tet moves, and allTets gains the new living Tet
\* or, when the spawn collides, nothing
TickSpawns ==
  /\ TetsKept /\ score' = score
  /\ \/ /\ ~newTet' /\ currTet' # Null /\ currTet' # currTet
        /\ allTets' = Append(allTets, currTet')
        /\ tets'[currTet'].topLeft = [row |-> 0, col |-> 4]
     \/ /\ gameOver' /\ newTet' /\ allTets' = allTets

\* the tick only moves the living Tet one row down
TickMovesDown ==
  /\ currTet' = currTet /\ ~newTet' /\ nextTet' = nextTet
  /\ allTets' = allTets /\ score' = score
  /\ tets'[currTet].topLeft =
        [row |-> tets[currTet].topLeft.row + 1, col |-> tets[currTet].topLeft.col]
  /\ tets'[currTet].shape = tets[currTet].shape
  /\ \A id \in (DOMAIN tets \cap DOMAIN tets') \ {currTet} :
        tets'[id].topLeft = tets[id].topLeft /\ tets'[id].shape = tets[id].shape

\* the tick only lands the living Tet: it does not move it, and no Tet is
\* spawned
TickLands ==
  /\ newTet' /\ currTet' = Null /\ nextTet' = nextTet
  /\ DOMAIN tets' \subseteq DOMAIN tets \cup NewTets
  /\ \A n \in NewTets : tets'[n].rotation = Undef
  /\ score' = score => (TetsKept /\ allTets' = allTets)

\* the tick leaves every Tet as it is
TickIdles ==
  /\ TetsKept /\ allTets' = allTets /\ score' = score
  /\ currTet' = currTet /\ nextTet' = nextTet /\ newTet' = newTet

\* C28: a drop-loop tick does exactly one of: spawn (newTet is true), move
\* the living Tet down by exactly one row or land it (a living Tet exists and
\* paused is false), leave all Tets unchanged (a living Tet exists and paused
\* is true); no tick both spawns and moves a Tet
TickDoesOneThing ==
  [][lastRun'.op = "dropTick" =>
       /\ newTet => TickSpawns
       /\ (~newTet /\ currTet # Null /\ ~paused) => (TickMovesDown \/ TickLands)
       /\ (~newTet /\ currTet # Null /\ paused) => TickIdles]_vars

\* a drop tick has moved the living Tet from row 0 to row 1
TickedDown ==
  /\ lastRun.op = "dropTick" /\ ~newTet /\ ~paused /\ currTet # Null
  /\ tets[currTet].topLeft.row = 1

Supported(id) ==
  \E p \in OneDown(id) :
     \/ p[1] >= BOARD_ROW_NUM
     \/ \E o \in LandedIds \ {id} : p \in Cells(tets[o])

\* C30: whenever no settle interval is scheduled every landed Tet is
\* supported (moving it down one row would leave the board or overlap another
\* landed Tet): no landed Tet or fragment floats after the settle fixed
\* point, also when the next Tet landed while the settle was in progress
LandedSupportedAtRest ==
  Len(moveLoops) = 0 => \A id \in LandedIds : Supported(id)

\* the settle of RiderPlay has ended: the Tets that landed on the hanging
\* Tets during the settle have gone down with them and rest on them
RidersAtRest ==
  /\ lastRun.op = "moveTick" /\ Len(moveLoops) = 0 /\ score = 10000
  /\ newTet /\ Len(allTets) = 5
  /\ \E a \in LandedIds : \E b \in LandedIds :
        /\ Cells(tets[a]) = {<<15, 0>>, <<15, 1>>, <<15, 2>>, <<15, 3>>}
        /\ Cells(tets[b]) = {<<14, 0>>, <<14, 1>>, <<14, 2>>, <<14, 3>>}

\* C31: with dev mode off and the game not over, a drop-loop interval is
\* scheduled exactly when paused is false; in particular the pause key, a
\* focus loss and reset leave it cancelled and paused set, while resume, an
\* accepted hard drop and an accepted move-down leave it scheduled
DropLoopIffRunning ==
  /\ (~devModeOn /\ ~gameOver) => ((dropLoops = 1 /\ loop) <=> ~paused)
  /\ (~devModeOn /\ lastRun.acc /\ lastRun.op \in {"blur", "reset"})
        => (paused /\ dropLoops = 0)
  /\ (~devModeOn /\ lastRun.acc /\ lastRun.op \in {"focus", "space", "down"})
        => (~paused /\ dropLoops = 1 /\ loop)

\* an accepted move-down left the drop loop scheduled in a running game
MoveDownKeptLoop ==
  /\ lastRun.op = "down" /\ lastRun.acc
  /\ ~devModeOn /\ ~gameOver /\ ~paused /\ dropLoops = 1 /\ loop

\* the pause state: the flag and the drop loop
PauseState == <<paused, dropLoops, loop>>

\* a focus loss: a game that is over is left as it is; otherwise the flag is
\* remembered, the drop loop cancelled and the game paused
BlurStep ==
  lastRun'.op = "blur" =>
     IF gameOver THEN UNCHANGED ProgramVars
     ELSE pausedBeforeBlur' = paused /\ paused' /\ dropLoops' = 0 /\ ~gameOver'

\* a tick between the two events touches neither the flags nor the drop loop
TickBetween ==
  (lastRun'.op \in Ticks /\ (paused \/ gameOver) /\ dropLoops = 0) =>
     UNCHANGED <<paused, pausedBeforeBlur, gameOver, dropLoops, loop>>

\* a focus gain right after a focus loss
FocusStep ==
  (lastRun.op = "blur" /\ lastRun'.op = "focus") =>
     IF gameOver THEN UNCHANGED ProgramVars
     ELSE /\ paused' = pausedBeforeBlur
          /\ dropLoops' = (IF pausedBeforeBlur THEN 0 ELSE 1)
          /\ loop' = ~pausedBeforeBlur
          /\ ~gameOver'

HardDropAccepted == ~GateFails /\ currTet # Null

\* the living Tet of state s lands within n calls of moveDown
RECURSIVE LandsWithin(_, _)
LandsWithin(s, n) ==
  \/ s.newTet \/ s.currTet = Null
  \/ n > 0 /\ ~s.exc /\ LandsWithin(moveDown(s, s.currTet), n - 1)

\* the living Tet fits with its origin in row r of its column: its cells are
\* on the board and none is held by a landed Tet
FitsAt(r) ==
  \A p \in ShapeCells(tets[currTet].shape, [row |-> r, col |-> tets[currTet].topLeft.col]) :
     OnBoard(p) /\ p \notin LandedCells

\* the lowest row the living Tet reaches by moving straight down
RestRow ==
  CHOOSE r \in tets[currTet].topLeft.row..BOARD_ROW_NUM :
     /\ \A q \in (tets[currTet].topLeft.row + 1)..r : FitsAt(q)
     /\ ~FitsAt(r + 1)

\* the game after the living Tet is landed by single move-downs
RECURSIVE SingleDowns(_)
SingleDowns(s) ==
  IF ~s.exc /\ canTetMove(s) /\ s.currTet # Null
  THEN SingleDowns(keyDown(s))
  ELSE s

\* an accepted hard drop that returned: no living Tet is left and the drop
\* loop is scheduled; the game is as single move-downs leave it; and when no
\* row was cleared the Tet rests at the lowest row it can reach, unchanged
HardDropStep ==
  (lastRun'.op = "space" /\ lastRun'.acc) =>
     /\ newTet' /\ currTet' = Null
     /\ dropLoops' = 1 /\ loop'
     /\ Store(Collect(SingleDowns(State)))
     /\ score' = score =>
           /\ currTet \in DOMAIN tets'
           /\ tets'[currTet] = [tets[currTet] EXCEPT !.topLeft.row = RestRow]

\* C33: a hard drop accepted by the gate lands the living Tet within that
\* one command: the handler returns with no living Tet (spawn pending), the
\* Tet at the lowest row it reaches by moving straight down with column,
\* rotation and shape unchanged, the rows it completes cleared as for a
\* landing by single move-downs, and the drop loop restarted
HardDropLands ==
  /\ [](HardDropAccepted => LandsWithin(State, BOARD_ROW_NUM + 1))
  /\ [][HardDropStep]_vars

\* a living Tet is falling: dev mode off, the game neither paused nor over
Falling == ~devModeOn /\ ~paused /\ ~gameOver /\ ~newTet /\ currTet # Null

\* the living Tet of state s lands within n ticks of the drop loop
RECURSIVE LandsInTicks(_, _)
LandsInTicks(s, n) ==
  \/ s.newTet \/ s.currTet = Null
  \/ n > 0 /\ ~s.exc /\ LandsInTicks(dropTick(s, 0, 0, 0), n - 1)

\* an accepted command that leaves the Tet living does not decrease its row
NoCommandRaises ==
  (Falling /\ lastRun'.op \in Commands /\ lastRun'.acc /\ currTet' = currTet) =>
     tets'[currTet].topLeft.row >= tets[currTet].topLeft.row

\* C34: with dev mode off a living Tet cannot fall forever: while the game
\* stays unpaused and not over and the drop loop ticks, a Tet spawned at row
\* 0 lands after at most 16 ticks (from row r, after at most 16 - r), and no
\* accepted rotate, move-left or move-right in between decreases its row
LivingTetLands ==
  /\ [](Falling => /\ tets[currTet].topLeft.row \in 0..(BOARD_ROW_NUM - 1)
                   /\ LandsInTicks(State, BOARD_ROW_NUM - tets[currTet].topLeft.row))
  /\ [][NoCommandRaises]_vars

\* Tet id is as its constructor leaves it: at row 0, column 4, not rotated,
\* with the catalog shape of its type
AsConstructed(id) ==
  /\ id \in DOMAIN tets
  /\ tets[id].type \in 0..6
  /\ tets[id].topLeft = [row |-> 0, col |-> 4]
  /\ tets[id].rotation = 0 /\ tets[id].pivot = 0
  /\ tets[id].shape = getShapeMatrix(tets[id].type, 0)

\* C35: the reset command is accepted in every state (running, paused,
\* settling, game over) and leaves gameOver false, paused true, score 0,
\* updateScore true, the drop loop cancelled, and allTets holding exactly one
\* Tet, the newly spawned living one, with a fresh next Tet
ResetStartsOver ==
  lastRun.op = "reset" =>
     /\ lastRun.acc
     /\ ~gameOver /\ paused /\ score = 0 /\ updateScore
     /\ dropLoops = 0 /\ ~loop
     /\ ~newTet /\ currTet # Null /\ allTets = <<currTet>>
     /\ nextTet # Null /\ nextTet # currTet
     /\ AsConstructed(currTet) /\ AsConstructed(nextTet)

\* a game that was over, with its score on the high-score list, was reset
ResetAfterGameOver ==
  /\ lastRun.op = "reset" /\ highScores[1] > 0
  /\ ~gameOver /\ paused /\ score = 0 /\ allTets = <<currTet>>

\* C36: in every reachable state the living Tet has 0 <= pivot <= pivotMax
\* (3 for I, 0 for O, 1 for every other type) and a pivot > 0 only while its
\* rotation is even; and so the column shift of a successful rotate never
\* moves an occupied cell past the right edge of the board
PivotInRange ==
  currTet # Null =>
     /\ tets[currTet].pivotMax = PivotMaxOf(tets[currTet].type)
     /\ tets[currTet].pivot \in 0..tets[currTet].pivotMax
     /\ tets[currTet].pivot > 0 => tets[currTet].rotation % 2 = 0
     /\ (lastRun.op = "up" /\ lastRun.acc /\ lastRun.ret) =>
           \A p \in Cells(tets[currTet]) : p[2] < BOARD_COL_NUM

\* the preview and the rotation of the living Tet in the current state
ShadowNow == doesNotTetPivotCollide(State, currTet)
RotateNow == rotate(State, currTet)

\* C37: whenever the living Tet has pivot > 0, doesNotTetPivotCollide()
\* returns a perimeter (not false) exactly when rotate() called in the same
\* state would succeed, and the placement previewed (topLeft.col + pivot,
\* the next rotation) is the placement rotate() commits
ShadowAgreesWithRotate ==
  (currTet # Null /\ tets[currTet].pivot > 0) =>
     /\ ShadowNow.ret <=> RotateNow.ret
     /\ RotateNow.ret =>
           /\ RotateNow.s.tets[currTet].topLeft =
                 [row |-> tets[currTet].topLeft.row,
                  col |-> tets[currTet].topLeft.col + tets[currTet].pivot]
           /\ RotateNow.s.tets[currTet].rotation = NextRot(tets[currTet].rotation)

====
